---- MODULE Spec2Model ----
(***************************************************************************)
(* QuantumShield / QAuth: handshake engine, session channel, proof-of-     *)
(* possession validator, revocation checker, token validator and policy   *)
(* engine, modelled as state machines over symbolic cryptography.          *)
(*                                                                         *)
(* Cryptographic primitives are black boxes (Dolev-Yao style terms): a     *)
(* hash is the tuple of what was fed to the hasher, a signature names the  *)
(* key and the digest it was made over, a ciphertext names the key, the    *)
(* AAD and the plaintext.  Option<T> is a sequence: <<>> is None, <<v>> is *)
(* Some(v).                                                                *)
(***************************************************************************)
EXTENDS Integers, Sequences, FiniteSets, TLC

VARIABLES
    hs,          \* [Objs -> QShieldHandshake]             handshake objects
    out,         \* messages the honest objects have emitted so far
    sess,        \* [Objs -> Option<EstablishedSession>]   last session yielded
    hlast,       \* the last handshake call and its result
    cleanSteps,  \* history: length of the honest run followed so far, -1 once left
    sigRejected, \* history: objects whose ServerHello signature check failed
    chan,        \* [Ends -> MessageChannel]               the two ends of a session
    wire,        \* the frames sent so far, in the order of emission (any of them
                 \* may be delivered, any time)
    accepted,    \* history: [Ends -> sequence of the counters receive accepted]
    clast,       \* the last channel call and its result
    now,         \* the wall clock, in seconds (Utc::now)
    pv,          \* the ProofValidator: its nonce cache and its settings
    proofs,      \* the proofs of possession the client has created
    okCount,     \* history: per nonce, the number of validate calls that returned Ok
    plast,       \* the last validate call and its result
    store,       \* the InMemoryRevocationStore shared by the deployment
    checker,     \* the RevocationChecker: its cache and its bloom filter
    revokedVia,  \* history: the rids revoked through the checker, with the time
    rlast,       \* the last revocation call and its result
    tok,         \* Option<QToken>: the token the issuer has created
    tlast,       \* the last QTokenValidator::validate call and its result
    engine,      \* the PolicyEngine: its loaded policies
    elast,       \* the last PolicyEngine::evaluate call and its result; seq is the
                 \* parity of the number of calls made
    qs,          \* two QuantumShield ciphers, x and y, made from one secret,
                 \* each with the number of rotate_keys calls made on it
    qlast,       \* the last message one holder encrypted for the other
    mutex,       \* the holder of the Mutex around the nonce cache, or "free"
    thr,         \* [Threads -> a validate call in progress on the shared validator]
    bloom,       \* a RevocationBloomFilter, with the ids added to it so far
    codec,       \* a QToken as created, and what decode made of its encoding
    qtb,         \* a QTokenBuilder as configured so far, and the token it built
    dsig,        \* the last dual signature verified, how it was made and the result
    cas,         \* the last ciphertext a QuantumShield decrypted, how it was made
                 \* and the result
    rd,          \* a serialization buffer, the reader's cursor into it and the
                 \* last read
    bnd,         \* the last token whose binding was replaced, and what the
                 \* resource server's checks made of it
    nodeRevokedAt \* history: per rid, the time another node last revoked it in
                 \* the shared store, -1 when none did

hsVars == <<hs, out, sess, hlast, cleanSteps, sigRejected>>

chanVars == <<chan, wire, accepted, clast>>

proofVars == <<pv, proofs, okCount, plast>>

revVars == <<store, checker, revokedVia, rlast>>

tokVars == <<tok, tlast>>

polVars == <<engine, elast>>

rotVars == <<qs, qlast>>

conVars == <<mutex, thr>>

extVars == <<bloom, codec, qtb, dsig, cas, rd, bnd, nodeRevokedAt>>

coreVars == <<hsVars, chanVars, proofVars, revVars, tokVars, polVars, rotVars, conVars>>

vars == <<hs, out, sess, hlast, cleanSteps, sigRejected, chan, wire, accepted, clast,
          now, pv, proofs, okCount, plast, store, checker, revokedVia, rlast,
          tok, tlast, engine, elast, qs, qlast, mutex, thr, bloom, codec, qtb, dsig, cas, rd, bnd, nodeRevokedAt>>

None == <<>>
Some(v) == <<v>>
IsSome(o) == o # <<>>
Unwrap(o) == o[1]

Ok(v) == [ok |-> TRUE, v |-> v]
Err(e) == [ok |-> FALSE, err |-> e]

(***************************************************************************)
(* Dual signatures (QShieldSign: ML-DSA + SLH-DSA)                         *)
(***************************************************************************)

\* Key pairs are named by their owner: "C" (client), "S" (server), "A" (attacker).
SignPublicKey(id) == [ml_dsa |-> id, slh_dsa |-> id]
SignSecretKey(id) == [ml_dsa |-> id, slh_dsa |-> id]

hash_message(message) == <<"QShieldSign-v1", message>>

hash_message_with_timestamp(message, timestamp) ==
    <<"QShieldSign-ts-v1", timestamp, message>>

MlDsa_sign(sk, digest) == [alg |-> "ml_dsa", key |-> sk, digest |-> digest]
SlhDsa_sign(sk, digest) == [alg |-> "slh_dsa", key |-> sk, digest |-> digest]

MlDsa_verify(pk, digest, sig) ==
    sig.alg = "ml_dsa" /\ sig.key = pk /\ sig.digest = digest

SlhDsa_verify(pk, digest, sig) ==
    sig.alg = "slh_dsa" /\ sig.key = pk /\ sig.digest = digest

QShieldSign_sign(secret_key, message) ==
    LET message_hash == hash_message(message)
    IN  [ml_dsa    |-> MlDsa_sign(secret_key.ml_dsa, message_hash),
         slh_dsa   |-> SlhDsa_sign(secret_key.slh_dsa, message_hash),
         timestamp |-> None]

\* A verifier that checks the ML-DSA half alone.
QShieldSign_verify_MlDsaOnly(public_key, message, signature) ==
    LET message_hash ==
            IF IsSome(signature.timestamp)
            THEN hash_message_with_timestamp(message, Unwrap(signature.timestamp))
            ELSE hash_message(message)
    IN  MlDsa_verify(public_key.ml_dsa, message_hash, signature.ml_dsa)

\* A verifier that is content with one valid half.
QShieldSign_verify_EitherHalf(public_key, message, signature) ==
    LET message_hash ==
            IF IsSome(signature.timestamp)
            THEN hash_message_with_timestamp(message, Unwrap(signature.timestamp))
            ELSE hash_message(message)
    IN  \/ MlDsa_verify(public_key.ml_dsa, message_hash, signature.ml_dsa)
        \/ SlhDsa_verify(public_key.slh_dsa, message_hash, signature.slh_dsa)

QShieldSign_verify(public_key, message, signature) ==
    LET message_hash ==
            IF IsSome(signature.timestamp)
            THEN hash_message_with_timestamp(message, Unwrap(signature.timestamp))
            ELSE hash_message(message)
        ml_dsa_valid  == MlDsa_verify(public_key.ml_dsa, message_hash, signature.ml_dsa)
        slh_dsa_valid == SlhDsa_verify(public_key.slh_dsa, message_hash, signature.slh_dsa)
    IN  ml_dsa_valid /\ slh_dsa_valid

(***************************************************************************)
(* Hybrid KEM (X25519 + ML-KEM) and the cascading cipher                   *)
(***************************************************************************)

\* Ephemeral KEM key pairs: "kc" (the client's), "ka" (the attacker's).
KemPublicKey(id) == [x25519 |-> id, ml_kem |-> id]
KemSecretKey(id) == [x25519 |-> id, ml_kem |-> id]

combine_secrets(x25519_ss, ml_kem_ss) == <<"QShieldKEM-v1", x25519_ss, ml_kem_ss>>

\* r is the randomness of the encapsulation.
QShieldKEM_encapsulate(public_key, r) ==
    [ciphertext    |-> [x25519 |-> [to |-> public_key.x25519, r |-> r],
                        ml_kem |-> [to |-> public_key.ml_kem, r |-> r]],
     shared_secret |-> combine_secrets(<<"dh", public_key.x25519, r>>,
                                       <<"mlkem", public_key.ml_kem, r>>)]

\* A decapsulation whose X25519 half uses a scalar unrelated to the key pair.
QShieldKEM_decapsulate_WrongScalar(secret_key, ciphertext) ==
    combine_secrets(<<"dh", secret_key.x25519, "mismatch">>,
                    <<"mlkem", ciphertext.ml_kem.to, ciphertext.ml_kem.r>>)

\* Decapsulation never fails: under the wrong key each half yields an
\* unrelated secret (DH with another scalar, ML-KEM implicit rejection).
QShieldKEM_decapsulate(secret_key, ciphertext) ==
    LET x25519_ss == IF ciphertext.x25519.to = secret_key.x25519
                     THEN <<"dh", ciphertext.x25519.to, ciphertext.x25519.r>>
                     ELSE <<"dh", secret_key.x25519, "mismatch">>
        ml_kem_ss == IF ciphertext.ml_kem.to = secret_key.ml_kem
                     THEN <<"mlkem", ciphertext.ml_kem.to, ciphertext.ml_kem.r>>
                     ELSE <<"mlkem", secret_key.ml_kem, "reject">>
    IN  combine_secrets(x25519_ss, ml_kem_ss)

\* HKDF with the given salt; the two keys are the halves of its output.
QShieldKDF_derive(ikm, salt, info) == <<"HKDF-SHA3-512", salt, ikm, info>>

QuantumShield_new(shared_secret) ==
    LET derived == QShieldKDF_derive(shared_secret, <<>>, "QuantumShield-cascade-v1")
    IN  [aes_key |-> <<"aes", derived>>, chacha_key |-> <<"chacha", derived>>]

\* A rotation that keeps the keys.
QuantumShield_rotate_keys_KeepsKeys(self, generated_salt) == self

\* rotate_keys passes no salt to derive, which then draws one from the
\* random generator: generated_salt is that draw.
QuantumShield_rotate_keys(self, generated_salt) ==
    LET new_keys == QShieldKDF_derive(<<self.aes_key, self.chacha_key>>, generated_salt,
                                      "QuantumShield-rotate-v1")
    IN  [aes_key |-> <<"aes", new_keys>>, chacha_key |-> <<"chacha", new_keys>>]

\* aad is the associated data the AEAD authenticates: the bytes the caller
\* gave or, for a caller that gave none, the empty string (the layers hand
\* the bare message to the cipher, which authenticates it with empty
\* associated data).
AeadEncrypt(key, plaintext, aad) == [key |-> key, aad |-> aad, body |-> plaintext]

AeadDecrypt(key, ct, aad) ==
    IF ct.key = key /\ ct.aad = aad THEN Ok(ct.body) ELSE Err("DecryptionFailed")

QuantumShield_encrypt_with_aad(cipher, plaintext, aad) ==
    AeadEncrypt(cipher.chacha_key, AeadEncrypt(cipher.aes_key, plaintext, aad), aad)

\* A decryption that takes the associated data from the ciphertext.
QuantumShield_decrypt_with_aad_AnyAad(cipher, ciphertext, aad) ==
    LET aes_encrypted == AeadDecrypt(cipher.chacha_key, ciphertext, ciphertext.aad)
    IN  IF ~aes_encrypted.ok THEN aes_encrypted
        ELSE AeadDecrypt(cipher.aes_key, aes_encrypted.v, aes_encrypted.v.aad)

QuantumShield_decrypt_with_aad(cipher, ciphertext, aad) ==
    LET aes_encrypted == AeadDecrypt(cipher.chacha_key, ciphertext, aad)
    IN  IF ~aes_encrypted.ok THEN aes_encrypted
        ELSE AeadDecrypt(cipher.aes_key, aes_encrypted.v, aad)

QuantumShield_encrypt(cipher, plaintext) ==
    QuantumShield_encrypt_with_aad(cipher, plaintext, None)

QuantumShield_decrypt(cipher, ciphertext) ==
    QuantumShield_decrypt_with_aad(cipher, ciphertext, None)

(***************************************************************************)
(* Handshake (protocol/handshake.rs)                                       *)
(***************************************************************************)

PROTOCOL_VERSION == 1

Objs == {"client", "server"}

\* Random values drawn by the honest parties and by the attacker.
NumRandom == 2

ClientNonces == {<<"nc", i>> : i \in 1..NumRandom}
ServerNonces == {<<"ns", i>> : i \in 1..NumRandom}
AttackerNonce == <<"na", 0>>
AttackerRandomness == <<"ra", 0>>

ClientHello_new(kem_public_key, sign_public_key, nonce) ==
    [version         |-> PROTOCOL_VERSION,
     kem_public_key  |-> kem_public_key,
     sign_public_key |-> sign_public_key,
     nonce           |-> nonce]

ClientHello_transcript_hash(m) ==
    <<"QShield-handshake-v1", m.version, m.kem_public_key, m.sign_public_key, m.nonce>>

\* client_hello_hash is the byte string fed first to the hasher: a sequence
\* of digests (the server passes the one digest, the client its transcript).
ServerHello_transcript_hash(m, client_hello_hash) ==
    <<"sha3", client_hello_hash, m.version, m.kem_ciphertext, m.sign_public_key, m.nonce>>

compute_finished_hash(self) == <<"QShield-finished-v1", self.transcript>>

\* A session that records the handshake's own signing key as the peer's.
create_session_OwnKey(self) ==
    [cipher        |-> QuantumShield_new(Unwrap(self.shared_secret)),
     peer_sign_key |-> self.sign_public_key,
     session_id    |-> <<"QShield-session-id-v1", self.transcript>>,
     send_counter  |-> 0,
     recv_counter  |-> 0]

create_session(self) ==
    [cipher        |-> QuantumShield_new(Unwrap(self.shared_secret)),
     peer_sign_key |-> Unwrap(self.peer_sign_public_key),
     session_id    |-> <<"QShield-session-id-v1", self.transcript>>,
     send_counter  |-> 0,
     recv_counter  |-> 0]

new_client(id) ==
    [role |-> "Client", state |-> "Initial",
     kem_secret_key |-> Some(KemSecretKey("kc")),
     kem_public_key |-> Some(KemPublicKey("kc")),
     sign_secret_key |-> SignSecretKey(id), sign_public_key |-> SignPublicKey(id),
     peer_kem_public_key |-> None, peer_sign_public_key |-> None,
     transcript |-> <<>>, shared_secret |-> None]

new_server(id) ==
    [role |-> "Server", state |-> "Initial",
     kem_secret_key |-> None, kem_public_key |-> None,
     sign_secret_key |-> SignSecretKey(id), sign_public_key |-> SignPublicKey(id),
     peer_kem_public_key |-> None, peer_sign_public_key |-> None,
     transcript |-> <<>>, shared_secret |-> None]

HSInit ==
    /\ hs = [o \in Objs |-> IF o = "client" THEN new_client("C") ELSE new_server("S")]
    /\ out = [ch |-> None, sh |-> None, cf |-> None, sf |-> None]
    /\ sess = [o \in Objs |-> None]
    /\ hlast = [op |-> "new", obj |-> "client", res |-> "Ok", pre |-> "Initial",
                kind |-> "honest"]
    /\ cleanSteps = 0
    /\ sigRejected = {}

\* The call record of an operation on object o presented with an input of
\* the given kind.
Call(op, o, kind, res) ==
    [op |-> op, obj |-> o, res |-> res, pre |-> hs[o].state, kind |-> kind]

\* History of the honest run: step k is taken right after step k-1.
CleanNext(k, honest) == IF cleanSteps = k - 1 /\ honest THEN k ELSE -1

(* ---- messages on the wire: what the peer sent, or what an attacker made of it ---- *)

CorruptSig == [alg |-> "corrupt", key |-> "X", digest |-> <<"corrupt">>]

AttackerClientHello ==
    ClientHello_new(KemPublicKey("ka"), SignPublicKey("A"), AttackerNonce)

\* A ServerHello the attacker builds and signs itself in answer to hello.
AttackerServerHello(hello) ==
    LET enc == QShieldKEM_encapsulate(hello.kem_public_key, AttackerRandomness)
        m   == [version |-> PROTOCOL_VERSION, kem_ciphertext |-> enc.ciphertext,
                sign_public_key |-> SignPublicKey("A"), nonce |-> AttackerNonce]
    IN  [version |-> m.version, kem_ciphertext |-> m.kem_ciphertext,
         sign_public_key |-> m.sign_public_key,
         signature |-> QShieldSign_sign(SignSecretKey("A"),
                          ServerHello_transcript_hash(m, <<ClientHello_transcript_hash(hello)>>)),
         nonce |-> m.nonce]

\* The ServerFinished that goes with AttackerServerHello(hello): the attacker
\* holds the secret it encapsulated for the client.
AttackerServerFinished(hello) ==
    LET enc == QShieldKEM_encapsulate(hello.kem_public_key, AttackerRandomness)
    IN  [encrypted_confirm |->
            QuantumShield_encrypt(QuantumShield_new(enc.shared_secret), "HANDSHAKE_COMPLETE")]

ClientHelloInputs ==
    {[kind |-> "foreign", msg |-> AttackerClientHello]}
    \cup (IF IsSome(out.ch)
          THEN LET m == Unwrap(out.ch)
               IN {[kind |-> "honest", msg |-> m],
                   [kind |-> "sign_pk", msg |-> [m EXCEPT !.sign_public_key = SignPublicKey("A")]],
                   [kind |-> "kem_pk", msg |-> [m EXCEPT !.kem_public_key = KemPublicKey("ka")]]}
          ELSE {})

ServerHelloInputs ==
    {[kind |-> "foreign", msg |-> AttackerServerHello(AttackerClientHello)]}
    \cup (IF IsSome(out.ch)
          THEN {[kind |-> "forged", msg |-> AttackerServerHello(Unwrap(out.ch))]}
          ELSE {})
    \cup (IF IsSome(out.sh)
          THEN LET m == Unwrap(out.sh)
               IN {[kind |-> "honest", msg |-> m],
                   [kind |-> "sig", msg |-> [m EXCEPT !.signature.ml_dsa = CorruptSig]],
                   [kind |-> "sig", msg |-> [m EXCEPT !.signature.slh_dsa = CorruptSig]],
                   [kind |-> "pk", msg |-> [m EXCEPT !.sign_public_key = SignPublicKey("A")]],
                   [kind |-> "pk", msg |-> [m EXCEPT !.sign_public_key.slh_dsa = "A"]],
                   [kind |-> "ct", msg |-> [m EXCEPT !.kem_ciphertext =
                        QShieldKEM_encapsulate(KemPublicKey("ka"), AttackerRandomness).ciphertext]],
                   [kind |-> "ct", msg |-> [m EXCEPT !.kem_ciphertext.ml_kem.r = AttackerRandomness]],
                   [kind |-> "nonce", msg |-> [m EXCEPT !.nonce = AttackerNonce]]}
          ELSE {})

\* o is the object the ClientFinished is presented to; the attacker knows
\* its transcript (every handshake message is public).
ClientFinishedInputs(o) ==
    {[kind |-> "forged", msg |-> [signature |->
        QShieldSign_sign(SignSecretKey("A"), compute_finished_hash(hs[o]))]]}
    \cup (IF IsSome(out.cf)
          THEN LET m == Unwrap(out.cf)
               IN {[kind |-> "honest", msg |-> m],
                   [kind |-> "sig", msg |-> [m EXCEPT !.signature.ml_dsa = CorruptSig]],
                   [kind |-> "sig", msg |-> [m EXCEPT !.signature.slh_dsa = CorruptSig]]}
          ELSE {})

ServerFinishedInputs(o) ==
    {[kind |-> "wrong_key", msg |-> [encrypted_confirm |->
        QuantumShield_encrypt(QuantumShield_new(<<"attacker">>), "HANDSHAKE_COMPLETE")]]}
    \cup (IF IsSome(hs[o].shared_secret)
          THEN {[kind |-> "wrong_confirm", msg |-> [encrypted_confirm |->
                    QuantumShield_encrypt(QuantumShield_new(Unwrap(hs[o].shared_secret)),
                                          "HANDSHAKE_ABORTED")]]}
          ELSE {})
    \cup (IF IsSome(out.sf)
          THEN {[kind |-> "honest", msg |-> Unwrap(out.sf)]}
          ELSE {})
    \cup (IF IsSome(out.ch)
          THEN {[kind |-> "attacker", msg |-> AttackerServerFinished(Unwrap(out.ch))]}
          ELSE {})

(* ---- the operations ---- *)

client_hello(o) ==
    \E nonce \in ClientNonces :
        /\ IF hs[o].role # "Client" \/ hs[o].state # "Initial"
           THEN /\ hlast' = Call("client_hello", o, "honest", "HandshakeFailed")
                /\ UNCHANGED <<hs, out>>
           ELSE LET hello == ClientHello_new(Unwrap(hs[o].kem_public_key),
                                             hs[o].sign_public_key, nonce)
                IN  /\ hs' = [hs EXCEPT ![o].transcript = @ \o <<ClientHello_transcript_hash(hello)>>,
                                        ![o].state = "ClientHelloSent"]
                    /\ out' = [out EXCEPT !.ch = Some(hello)]
                    /\ hlast' = Call("client_hello", o, "honest", "Ok")
        /\ cleanSteps' = CleanNext(1, o = "client")
        /\ UNCHANGED <<sess, sigRejected, chanVars, now, proofVars, revVars, tokVars, polVars, rotVars, conVars, extVars>>

server_hello(o) ==
    \E in \in ClientHelloInputs, nonce \in ServerNonces, r \in {<<"r", 1>>} :
        /\ IF hs[o].role # "Server" \/ hs[o].state # "Initial"
           THEN /\ hlast' = Call("server_hello", o, in.kind, "HandshakeFailed")
                /\ UNCHANGED <<hs, out>>
           ELSE LET client_hello_hash == ClientHello_transcript_hash(in.msg)
                    enc == QShieldKEM_encapsulate(in.msg.kem_public_key, r)
                    unsigned == [version |-> PROTOCOL_VERSION,
                                 kem_ciphertext |-> enc.ciphertext,
                                 sign_public_key |-> hs[o].sign_public_key,
                                 nonce |-> nonce]
                    transcript_to_sign ==
                        ServerHello_transcript_hash(unsigned, <<client_hello_hash>>)
                    server_hello_msg ==
                        [version |-> PROTOCOL_VERSION,
                         kem_ciphertext |-> enc.ciphertext,
                         sign_public_key |-> hs[o].sign_public_key,
                         signature |-> QShieldSign_sign(hs[o].sign_secret_key, transcript_to_sign),
                         nonce |-> nonce]
                IN  /\ hs' = [hs EXCEPT
                            ![o].peer_kem_public_key = Some(in.msg.kem_public_key),
                            ![o].peer_sign_public_key = Some(in.msg.sign_public_key),
                            ![o].shared_secret = Some(enc.shared_secret),
                            ![o].transcript = @ \o <<client_hello_hash, transcript_to_sign>>,
                            ![o].state = "ServerHelloReceived"]
                    /\ out' = [out EXCEPT !.sh = Some(server_hello_msg)]
                    /\ hlast' = Call("server_hello", o, in.kind, "Ok")
        /\ cleanSteps' = CleanNext(2, o = "server" /\ in.kind = "honest")
        /\ UNCHANGED <<sess, sigRejected, chanVars, now, proofVars, revVars, tokVars, polVars, rotVars, conVars, extVars>>

\* The ways a ServerHello is altered in flight with its signature kept, or
\* its signature altered.
TamperKinds == {"sig", "pk", "ct", "nonce"}

process_server_hello(o) ==
    \E in \in ServerHelloInputs :
        /\ IF hs[o].role # "Client" \/ hs[o].state # "ClientHelloSent"
           THEN /\ hlast' = Call("process_server_hello", o, in.kind, "HandshakeFailed")
                /\ UNCHANGED <<hs, out, sigRejected>>
           ELSE LET client_hello_hash == hs[o].transcript
                    transcript_to_verify ==
                        ServerHello_transcript_hash(in.msg, client_hello_hash)
                    valid == QShieldSign_verify(in.msg.sign_public_key,
                                                transcript_to_verify, in.msg.signature)
                    shared_secret ==
                        QShieldKEM_decapsulate(Unwrap(hs[o].kem_secret_key),
                                               in.msg.kem_ciphertext)
                    verified == [hs[o] EXCEPT
                        !.peer_sign_public_key = Some(in.msg.sign_public_key),
                        !.shared_secret = Some(shared_secret),
                        !.transcript = @ \o <<transcript_to_verify>>]
                    client_finished_hash == compute_finished_hash(verified)
                    signature == QShieldSign_sign(hs[o].sign_secret_key, client_finished_hash)
                IN  /\ sigRejected' = IF in.kind \in TamperKinds
                                      THEN sigRejected \cup {o} ELSE sigRejected
                    /\ IF ~valid
                       THEN /\ hs' = [hs EXCEPT
                                   ![o].peer_sign_public_key = Some(in.msg.sign_public_key),
                                   ![o].state = "Failed"]
                            /\ hlast' = Call("process_server_hello", o, in.kind, "HandshakeFailed")
                            /\ UNCHANGED out
                       ELSE /\ hs' = [hs EXCEPT ![o] = [verified EXCEPT
                                   !.transcript = @ \o <<client_finished_hash>>,
                                   !.state = "ClientFinishedSent"]]
                            /\ out' = [out EXCEPT !.cf = Some([signature |-> signature])]
                            /\ hlast' = Call("process_server_hello", o, in.kind, "Ok")
        /\ cleanSteps' = CleanNext(3, o = "client" /\ in.kind = "honest")
        /\ UNCHANGED <<sess, chanVars, now, proofVars, revVars, tokVars, polVars, rotVars, conVars, extVars>>

process_client_finished(o) ==
    \E in \in ClientFinishedInputs(o) :
        /\ IF hs[o].role # "Server" \/ hs[o].state # "ServerHelloReceived"
           THEN /\ hlast' = Call("process_client_finished", o, in.kind, "HandshakeFailed")
                /\ UNCHANGED <<hs, out>>
           ELSE LET peer_sign_pk == Unwrap(hs[o].peer_sign_public_key)
                    client_finished_hash == compute_finished_hash(hs[o])
                    valid == QShieldSign_verify(peer_sign_pk, client_finished_hash,
                                                in.msg.signature)
                    cipher == QuantumShield_new(Unwrap(hs[o].shared_secret))
                    encrypted_confirm == QuantumShield_encrypt(cipher, "HANDSHAKE_COMPLETE")
                IN  IF ~valid
                    THEN /\ hs' = [hs EXCEPT ![o].state = "Failed"]
                         /\ hlast' = Call("process_client_finished", o, in.kind, "HandshakeFailed")
                         /\ UNCHANGED out
                    ELSE /\ hs' = [hs EXCEPT
                                ![o].transcript = @ \o <<client_finished_hash>>,
                                ![o].state = "Complete"]
                         /\ out' = [out EXCEPT !.sf =
                                Some([encrypted_confirm |-> encrypted_confirm])]
                         /\ hlast' = Call("process_client_finished", o, in.kind, "Ok")
        /\ cleanSteps' = CleanNext(4, o = "server" /\ in.kind = "honest")
        /\ UNCHANGED <<sess, sigRejected, chanVars, now, proofVars, revVars, tokVars, polVars, rotVars, conVars, extVars>>

process_server_finished(o) ==
    \E in \in ServerFinishedInputs(o) :
        /\ IF hs[o].role # "Client" \/ hs[o].state # "ClientFinishedSent"
           THEN /\ hlast' = Call("process_server_finished", o, in.kind, "HandshakeFailed")
                /\ UNCHANGED <<hs, sess>>
           ELSE LET cipher == QuantumShield_new(Unwrap(hs[o].shared_secret))
                    confirm_data == QuantumShield_decrypt(cipher, in.msg.encrypted_confirm)
                IN  IF ~confirm_data.ok
                    THEN \* the decryption error is propagated as it is
                         /\ hlast' = Call("process_server_finished", o, in.kind, confirm_data.err)
                         /\ UNCHANGED <<hs, sess>>
                    ELSE IF confirm_data.v # "HANDSHAKE_COMPLETE"
                    THEN /\ hs' = [hs EXCEPT ![o].state = "Failed"]
                         /\ hlast' = Call("process_server_finished", o, in.kind, "HandshakeFailed")
                         /\ UNCHANGED sess
                    ELSE /\ hs' = [hs EXCEPT ![o].state = "Complete"]
                         /\ sess' = [sess EXCEPT ![o] = Some(create_session(hs[o]))]
                         /\ hlast' = Call("process_server_finished", o, in.kind, "Ok")
        /\ cleanSteps' = CleanNext(5, o = "client" /\ in.kind = "honest")
        /\ UNCHANGED <<out, sigRejected, chanVars, now, proofVars, revVars, tokVars, polVars, rotVars, conVars, extVars>>

\* A complete_server that takes a handshake that has ended, well or not.
complete_server_AnyEnd(o) ==
    /\ IF hs[o].role # "Server" \/ hs[o].state \notin {"Complete", "Failed"}
       THEN /\ hlast' = Call("complete_server", o, "honest", "HandshakeFailed")
            /\ UNCHANGED sess
       ELSE /\ sess' = [sess EXCEPT ![o] = Some(create_session(hs[o]))]
            /\ hlast' = Call("complete_server", o, "honest", "Ok")
    /\ cleanSteps' = CleanNext(6, o = "server")
    /\ UNCHANGED <<hs, out, sigRejected, chanVars, now, proofVars, revVars, tokVars, polVars, rotVars, conVars, extVars>>

complete_server(o) ==
    /\ IF hs[o].role # "Server" \/ hs[o].state # "Complete"
       THEN /\ hlast' = Call("complete_server", o, "honest", "HandshakeFailed")
            /\ UNCHANGED sess
       ELSE /\ sess' = [sess EXCEPT ![o] = Some(create_session(hs[o]))]
            /\ hlast' = Call("complete_server", o, "honest", "Ok")
    /\ cleanSteps' = CleanNext(6, o = "server")
    /\ UNCHANGED <<hs, out, sigRejected, chanVars, now, proofVars, revVars, tokVars, polVars, rotVars, conVars, extVars>>

HSNext ==
    \E o \in Objs :
        \/ client_hello(o)
        \/ server_hello(o)
        \/ process_server_hello(o)
        \/ process_client_finished(o)
        \/ process_server_finished(o)
        \/ complete_server(o)

(***************************************************************************)
(* Message channel (protocol/message.rs)                                   *)
(***************************************************************************)

RecvWindow == 1024

\* The largest number of frames one end sends.
MaxSend == 2

Ends == {"a", "b"}

MessageTypeByte(message_type) ==
    CASE message_type = "Data" -> 1
      [] message_type = "Close" -> 2
      [] message_type = "KeyUpdate" -> 3
      [] message_type = "Heartbeat" -> 4
      [] message_type = "Error" -> 5

MessageType_try_from(value) ==
    CASE value = 1 -> Ok("Data")
      [] value = 2 -> Ok("Close")
      [] value = 3 -> Ok("KeyUpdate")
      [] value = 4 -> Ok("Heartbeat")
      [] value = 5 -> Ok("Error")
      [] OTHER -> Err("ParseError")

MessageContent(message_type, counter, timestamp, payload) ==
    [message_type |-> message_type, counter |-> counter,
     timestamp |-> timestamp, payload |-> payload]

\* The plaintext layout, field by field: type, flags, counter, the optional
\* timestamp, the payload length, the payload.
\* An encoder that sets the timestamp flag and leaves the timestamp out.
MessageContent_to_bytes_NoTimestamp(self) ==
    <<MessageTypeByte(self.message_type),
      IF IsSome(self.timestamp) THEN 1 ELSE 0,
      self.counter>>
    \o <<Len(self.payload)>>
    \o <<self.payload>>

MessageContent_to_bytes(self) ==
    <<MessageTypeByte(self.message_type),
      IF IsSome(self.timestamp) THEN 1 ELSE 0,
      self.counter>>
    \o self.timestamp
    \o <<Len(self.payload)>>
    \o <<self.payload>>

MessageContent_from_bytes(data) ==
    IF Len(data) < 3 THEN Err("ParseError")
    ELSE LET message_type == MessageType_try_from(data[1])
             has_ts == data[2] % 2 # 0
             offset == IF has_ts THEN 4 ELSE 3
         IN  IF ~message_type.ok THEN message_type
             ELSE IF Len(data) < offset + 2 THEN Err("ParseError")
             ELSE IF Len(data[offset + 2]) < data[offset + 1] THEN Err("ParseError")
             ELSE Ok(MessageContent(message_type.v, data[3],
                                    IF has_ts THEN Some(data[4]) ELSE None,
                                    SubSeq(data[offset + 2], 1, data[offset + 1])))

QShieldMessage_seal(cipher, session_id, content) ==
    [version    |-> PROTOCOL_VERSION,
     session_id |-> session_id,
     encrypted  |-> QuantumShield_encrypt_with_aad(cipher,
                        MessageContent_to_bytes(content), session_id)]

QShieldMessage_open(self, cipher) ==
    IF self.version # PROTOCOL_VERSION THEN Err("VersionMismatch")
    ELSE LET plaintext == QuantumShield_decrypt_with_aad(cipher, self.encrypted,
                                                         self.session_id)
         IN  IF ~plaintext.ok THEN plaintext
             ELSE MessageContent_from_bytes(plaintext.v)

MessageChannel_new(cipher, session_id) ==
    [cipher |-> cipher, session_id |-> <<"first16", session_id>>,
     send_counter |-> 0, recv_counter |-> 0, recv_window |-> RecvWindow]

\* Both ends hold the cipher and the session id one handshake established.
ChanInit ==
    /\ chan = [e \in Ends |->
                MessageChannel_new(
                    QuantumShield_new(combine_secrets(<<"dh", "kc", <<"r", 1>>>>,
                                                      <<"mlkem", "kc", <<"r", 1>>>>)),
                    <<"session", 1>>)]
    /\ wire = <<>>
    /\ accepted = [e \in Ends |-> <<>>]
    /\ clast = [op |-> "new", end |-> "a", res |-> "Ok", counter |-> -1, pre |-> 0]

\* Frames that reach an end without having been sent by send/send_control:
\* of another session, under another key, of another version, or sealed by
\* a holder of the session key with a counter ahead of the sender's.
InjectedFrames(e) ==
    LET content == MessageContent("Data", chan[e].recv_counter, None, <<7>>)
    IN  {QShieldMessage_seal(chan[e].cipher, <<"first16", <<"session", 2>>>>, content),
         QShieldMessage_seal(QuantumShield_new(<<"attacker">>), chan[e].session_id, content),
         [QShieldMessage_seal(chan[e].cipher, chan[e].session_id, content)
            EXCEPT !.version = PROTOCOL_VERSION + 1]}
        \cup {QShieldMessage_seal(chan[e].cipher, chan[e].session_id,
                                  MessageContent("Data", c, None, <<7>>))
                  : c \in {RecvWindow, RecvWindow + 1}}

\* The call record; counter is the counter of the frame when the end took it
\* for a frame of its session and opened it, and -1 otherwise.
ChanCall(op, e, res, counter) ==
    [op |-> op, end |-> e, res |-> res, counter |-> counter, pre |-> chan[e].recv_counter]

send(e) ==
    \E data \in {<<7>>} :
        /\ chan[e].send_counter < MaxSend
        /\ LET content == MessageContent("Data", chan[e].send_counter, None, data)
               msg == QShieldMessage_seal(chan[e].cipher, chan[e].session_id, content)
           IN  /\ wire' = Append(wire, msg)
               /\ chan' = [chan EXCEPT ![e].send_counter = @ + 1]
               /\ clast' = ChanCall("send", e, "Ok", content.counter)
        /\ UNCHANGED <<accepted, hsVars, now, proofVars, revVars, tokVars, polVars, rotVars, conVars, extVars>>

send_with_timestamp(e) ==
    \E data \in {<<7>>}, timestamp \in {1704067200} :
        /\ chan[e].send_counter < MaxSend
        /\ LET content == MessageContent("Data", chan[e].send_counter, Some(timestamp), data)
               msg == QShieldMessage_seal(chan[e].cipher, chan[e].session_id, content)
           IN  /\ wire' = Append(wire, msg)
               /\ chan' = [chan EXCEPT ![e].send_counter = @ + 1]
               /\ clast' = ChanCall("send_with_timestamp", e, "Ok", content.counter)
        /\ UNCHANGED <<accepted, hsVars, now, proofVars, revVars, tokVars, polVars, rotVars, conVars, extVars>>

send_control(e) ==
    \E msg_type \in {"Data", "Close", "KeyUpdate", "Heartbeat", "Error"} :
        /\ chan[e].send_counter < MaxSend
        /\ IF msg_type \notin {"Close", "Heartbeat", "KeyUpdate"}
           THEN /\ clast' = ChanCall("send_control", e, "NotSupported", -1)
                /\ UNCHANGED <<wire, chan>>
           ELSE LET content == MessageContent(msg_type, chan[e].send_counter, None, <<>>)
                    msg == QShieldMessage_seal(chan[e].cipher, chan[e].session_id, content)
                IN  /\ wire' = Append(wire, msg)
                    /\ chan' = [chan EXCEPT ![e].send_counter = @ + 1]
                    /\ clast' = ChanCall("send_control", e, "Ok", content.counter)
        /\ UNCHANGED <<accepted, hsVars, now, proofVars, revVars, tokVars, polVars, rotVars, conVars, extVars>>

\* The replay checks of receive.
IsOld_OffByOne(counter, recv_counter) == counter + 1 < recv_counter

IsOld(counter, recv_counter) == counter < recv_counter

\* A window one counter short.
IsTooFarAhead_OffByOne(counter, recv_counter, recv_window) ==
    counter >= recv_counter + recv_window

IsTooFarAhead(counter, recv_counter, recv_window) == counter > recv_counter + recv_window

\* A receive that accepts a frame and leaves recv_counter where it was.
MessageChannel_receive_KeepsCounter(self, msg) ==
    LET content == QShieldMessage_open(msg, self.cipher)
    IN  IF msg.session_id # self.session_id
        THEN [res |-> "AuthenticationFailed", counter |-> -1, self |-> self]
        ELSE IF ~content.ok
        THEN [res |-> content.err, counter |-> -1, self |-> self]
        ELSE IF \/ IsOld(content.v.counter, self.recv_counter)
                \/ IsTooFarAhead(content.v.counter, self.recv_counter, self.recv_window)
        THEN [res |-> "AuthenticationFailed", counter |-> content.v.counter, self |-> self]
        ELSE [res |-> "Ok", counter |-> content.v.counter, self |-> self]

\* A receive that moves recv_counter before it checks the counter.
MessageChannel_receive_UpdatesFirst(self, msg) ==
    LET content == QShieldMessage_open(msg, self.cipher)
        moved == [self EXCEPT !.recv_counter =
                     IF content.v.counter >= @ THEN content.v.counter + 1 ELSE @]
    IN  IF msg.session_id # self.session_id
        THEN [res |-> "AuthenticationFailed", counter |-> -1, self |-> self]
        ELSE IF ~content.ok
        THEN [res |-> content.err, counter |-> -1, self |-> self]
        ELSE IF \/ IsOld(content.v.counter, self.recv_counter)
                \/ IsTooFarAhead(content.v.counter, self.recv_counter, self.recv_window)
        THEN [res |-> "AuthenticationFailed", counter |-> content.v.counter, self |-> moved]
        ELSE [res |-> "Ok", counter |-> content.v.counter, self |-> moved]

\* MessageChannel::receive: the result, the counter of the frame when it was
\* opened (-1 otherwise), and the channel after the call.
MessageChannel_receive(self, msg) ==
    LET content == QShieldMessage_open(msg, self.cipher)
    IN  IF msg.session_id # self.session_id
        THEN [res |-> "AuthenticationFailed", counter |-> -1, self |-> self]
        ELSE IF ~content.ok
        THEN [res |-> content.err, counter |-> -1, self |-> self]
        ELSE IF \/ IsOld(content.v.counter, self.recv_counter)
                \/ IsTooFarAhead(content.v.counter, self.recv_counter, self.recv_window)
        THEN [res |-> "AuthenticationFailed", counter |-> content.v.counter, self |-> self]
        ELSE [res |-> "Ok", counter |-> content.v.counter,
              self |-> [self EXCEPT !.recv_counter =
                           IF content.v.counter >= @ THEN content.v.counter + 1 ELSE @]]

receive(e) ==
    \E msg \in {wire[i] : i \in 1..Len(wire)} \cup InjectedFrames(e) :
        LET call == MessageChannel_receive(chan[e], msg)
        IN  /\ chan' = [chan EXCEPT ![e] = call.self]
            /\ accepted' = IF call.res = "Ok"
                           THEN [accepted EXCEPT ![e] = Append(@, call.counter)]
                           ELSE accepted
            /\ clast' = ChanCall("receive", e, call.res, call.counter)
            /\ UNCHANGED <<wire, hsVars, now, proofVars, revVars, tokVars, polVars, rotVars, conVars, extVars>>

\* The direction of the traffic modelled: a sends, b receives.
ChanNext ==
    \/ \E e \in {"a"} : send(e) \/ send_with_timestamp(e) \/ send_control(e)
    \/ \E e \in {"b"} : receive(e)

(***************************************************************************)
(* Proof of possession (qauth proof.rs)                                    *)
(***************************************************************************)

PROOF_MAX_AGE_SECONDS == 60

\* The clock advances in steps of ProofTick seconds up to MaxTime.
ProofTick == 50
MaxTime == 150

\* The largest number of proofs the client creates.
MaxProofs == 2

ProofNonces == {"n1", "n2"}

sha256(data) == <<"sha256", data>>

BodyHash(body) == IF IsSome(body) THEN sha256(Unwrap(body)) ELSE <<"zeros">>

Ed25519_sign(key, message) == [key |-> key, message |-> message]

Ed25519_verify(public_key, message, signature) ==
    signature.key = public_key /\ signature.message = message

create_signing_message(timestamp, nonce, method, uri, body_hash, token_hash) ==
    <<timestamp, nonce, method, uri, body_hash, token_hash>>

\* client_now is Utc::now() as the client's clock reads it.
ProofOfPossession_create(method, uri, body, token_bytes, signing_key, nonce, client_now) ==
    LET timestamp == client_now * 1000
        body_hash == BodyHash(body)
        token_hash == sha256(token_bytes)
    IN  [timestamp |-> timestamp, nonce |-> nonce, method |-> method, uri |-> uri,
         body_hash |-> body_hash, token_hash |-> token_hash,
         signature |-> Ed25519_sign(signing_key,
             create_signing_message(timestamp, nonce, method, uri, body_hash, token_hash))]

NonceCache_new(window_size_seconds) ==
    [nonces |-> {}, window_start |-> now, window_size_seconds |-> window_size_seconds]

\* The cache after the call, and whether the nonce was new to it.
NonceCache_check_and_mark(self, nonce) ==
    LET rotated == IF now - self.window_start > self.window_size_seconds
                   THEN [self EXCEPT !.nonces = {}, !.window_start = now]
                   ELSE self
    IN  [cache |-> [rotated EXCEPT !.nonces = @ \cup {nonce}],
         fresh |-> nonce \notin rotated.nonces]

ProofValidator_new(client_public_key) ==
    [client_public_key |-> client_public_key,
     max_clock_skew_seconds |-> PROOF_MAX_AGE_SECONDS,
     used_nonces |-> NonceCache_new(PROOF_MAX_AGE_SECONDS * 2)]

\* The request the server checks a proof against.
Request(method, uri, body, token_bytes) ==
    [method |-> method, uri |-> uri, body |-> body, token_bytes |-> token_bytes]

GoodRequest == Request("GET", "/api/resource", None, "token")

Requests ==
    {[kind |-> "good", req |-> GoodRequest],
     [kind |-> "method", req |-> [GoodRequest EXCEPT !.method = "POST"]],
     [kind |-> "uri", req |-> [GoodRequest EXCEPT !.uri = "/api/other"]],
     [kind |-> "body", req |-> [GoodRequest EXCEPT !.body = Some(<<1>>)]],
     [kind |-> "token", req |-> [GoodRequest EXCEPT !.token_bytes = "other-token"]]}

\* The proofs presented to the validator: the client's, or a copy an attacker
\* re-stamped or signed with its own key.
ProofInputs ==
    UNION {{[kind |-> "honest", proof |-> p],
            [kind |-> "restamped", proof |-> [p EXCEPT !.timestamp = now * 1000]],
            [kind |-> "forged", proof |-> [p EXCEPT !.signature.key = "attacker"]]}
           : p \in proofs}

ProofInit ==
    /\ now = 0
    /\ pv = ProofValidator_new("client")
    /\ proofs = {}
    /\ okCount = [n \in ProofNonces |-> 0]
    /\ plast = [op |-> "new", res |-> "Ok", nonce |-> "n1", kind |-> "honest",
                req |-> "good", age |-> 0, marked |-> FALSE, cached |-> FALSE,
                proof |-> None, expected |-> GoodRequest]

ProofTickStep ==
    /\ now + ProofTick <= MaxTime
    /\ now' = now + ProofTick
    /\ UNCHANGED <<proofVars, hsVars, chanVars, revVars, tokVars, polVars, rotVars, conVars, extVars>>

CreateProof ==
    \E nonce \in ProofNonces, ahead \in {0, 2 * ProofTick} :
        /\ Cardinality(proofs) < MaxProofs
        /\ proofs' = proofs \cup
              {ProofOfPossession_create(GoodRequest.method, GoodRequest.uri, GoodRequest.body,
                                        GoodRequest.token_bytes, "client", nonce, now + ahead)}
        /\ UNCHANGED <<now, pv, okCount, plast, hsVars, chanVars, revVars, tokVars, polVars, rotVars, conVars, extVars>>

\* The outcome of validate: the result, and the nonce cache it leaves.
ProofValidator_validate(self, proof, expected_method, expected_uri, body, token_bytes) ==
    LET now_ms == now * 1000
        proof_age_ms == IF now_ms >= proof.timestamp THEN now_ms - proof.timestamp ELSE 0
        max_age_ms == self.max_clock_skew_seconds * 1000
        marked == NonceCache_check_and_mark(self.used_nonces, proof.nonce)
        message == create_signing_message(proof.timestamp, proof.nonce, proof.method,
                                          proof.uri, proof.body_hash, proof.token_hash)
        Rejected(cache) == [res |-> "InvalidProof", cache |-> cache]
    IN  IF proof_age_ms > max_age_ms THEN Rejected(self.used_nonces)
        ELSE IF proof.timestamp > now_ms + max_age_ms THEN Rejected(self.used_nonces)
        ELSE IF ~marked.fresh THEN Rejected(marked.cache)
        ELSE IF proof.method # expected_method THEN Rejected(marked.cache)
        ELSE IF proof.uri # expected_uri THEN Rejected(marked.cache)
        ELSE IF proof.body_hash # BodyHash(body) THEN Rejected(marked.cache)
        ELSE IF proof.token_hash # sha256(token_bytes) THEN Rejected(marked.cache)
        ELSE IF ~Ed25519_verify(self.client_public_key, message, proof.signature)
             THEN Rejected(marked.cache)
        ELSE [res |-> "Ok", cache |-> marked.cache]

ValidateProof ==
    \E in \in ProofInputs, r \in Requests :
        LET result == ProofValidator_validate(pv, in.proof, r.req.method, r.req.uri,
                                              r.req.body, r.req.token_bytes)
        IN  /\ pv' = [pv EXCEPT !.used_nonces = result.cache]
            /\ okCount' = IF result.res = "Ok" /\ okCount[in.proof.nonce] < 2
                          THEN [okCount EXCEPT ![in.proof.nonce] = @ + 1]
                          ELSE okCount
            /\ plast' = [op |-> "validate", res |-> result.res, nonce |-> in.proof.nonce,
                         kind |-> in.kind, req |-> r.kind,
                         age |-> now - (in.proof.timestamp \div 1000),
                         marked |-> result.cache # pv.used_nonces,
                         cached |-> in.proof.nonce \in pv.used_nonces.nonces,
                         proof |-> Some(in.proof), expected |-> r.req]
            /\ UNCHANGED <<now, proofs, hsVars, chanVars, revVars, tokVars, polVars, rotVars, conVars, extVars>>

ProofNext == ProofTickStep \/ CreateProof \/ ValidateProof

(***************************************************************************)
(* Concurrent validate calls on one ProofValidator (qauth proof.rs)        *)
(*                                                                         *)
(* Each thread makes one call of validate on the shared validator pv.  The *)
(* call is split where another thread can run in between: before the lock  *)
(* is taken, while it is held, and after it is released.  with is the set  *)
(* of threads that were inside validate when the thread entered it.        *)
(***************************************************************************)
Threads == {"t1", "t2"}

ConInit ==
    /\ mutex = "free"
    /\ thr = [t \in Threads |-> [pc |-> "idle", proof |-> None, kind |-> "honest",
                                  fresh |-> FALSE, res |-> "none", with |-> {}]]

\* validate, step 1: the two timestamp checks, made before the lock is taken.
validate_timestamp(t) ==
    \E in \in ProofInputs :
        LET now_ms == now * 1000
            proof_age_ms == IF now_ms >= in.proof.timestamp
                            THEN now_ms - in.proof.timestamp ELSE 0
            max_age_ms == pv.max_clock_skew_seconds * 1000
            rejected == \/ proof_age_ms > max_age_ms
                        \/ in.proof.timestamp > now_ms + max_age_ms
        IN  /\ thr[t].pc = "idle"
            /\ thr' = [thr EXCEPT ![t] =
                  [pc |-> IF rejected THEN "done" ELSE "lock",
                   proof |-> Some(in.proof), kind |-> in.kind, fresh |-> FALSE,
                   res |-> IF rejected THEN "InvalidProof" ELSE "none",
                   with |-> {u \in Threads \ {t} : thr[u].pc \notin {"idle", "done"}}]]
            /\ UNCHANGED <<mutex, now, pv, proofs, okCount, plast, hsVars, chanVars, revVars,
                           tokVars, polVars, rotVars, extVars>>

\* self.used_nonces.lock(): the thread waits until the mutex is free.
validate_lock(t) ==
    /\ thr[t].pc = "lock"
    /\ mutex = "free"
    /\ mutex' = t
    /\ thr' = [thr EXCEPT ![t].pc = "check_and_mark"]
    /\ UNCHANGED <<now, proofVars, hsVars, chanVars, revVars, tokVars, polVars, rotVars, extVars>>

\* cache.check_and_mark(&proof.nonce), by the thread that holds the mutex.
validate_check_and_mark(t) ==
    LET marked == NonceCache_check_and_mark(pv.used_nonces, Unwrap(thr[t].proof).nonce)
    IN  /\ thr[t].pc = "check_and_mark"
        /\ pv' = [pv EXCEPT !.used_nonces = marked.cache]
        /\ thr' = [thr EXCEPT ![t].pc = "unlock", ![t].fresh = marked.fresh]
        /\ UNCHANGED <<mutex, now, proofs, okCount, plast, hsVars, chanVars, revVars,
                       tokVars, polVars, rotVars, extVars>>

\* The guard is dropped at the end of the block, after the early return on a
\* nonce that was in the cache.
validate_unlock(t) ==
    /\ thr[t].pc = "unlock"
    /\ mutex' = "free"
    /\ thr' = [thr EXCEPT ![t].pc = IF thr[t].fresh THEN "verify" ELSE "done",
                          ![t].res = IF thr[t].fresh THEN "none" ELSE "InvalidProof"]
    /\ UNCHANGED <<now, proofVars, hsVars, chanVars, revVars, tokVars, polVars, rotVars, extVars>>

\* validate, steps 3 to 7: method, uri, body hash, token hash and signature,
\* against the request every thread was given.
validate_verify(t) ==
    LET proof == Unwrap(thr[t].proof)
        message == create_signing_message(proof.timestamp, proof.nonce, proof.method,
                                          proof.uri, proof.body_hash, proof.token_hash)
        rejected == \/ proof.method # GoodRequest.method
                    \/ proof.uri # GoodRequest.uri
                    \/ proof.body_hash # BodyHash(GoodRequest.body)
                    \/ proof.token_hash # sha256(GoodRequest.token_bytes)
                    \/ ~Ed25519_verify(pv.client_public_key, message, proof.signature)
    IN  /\ thr[t].pc = "verify"
        /\ thr' = [thr EXCEPT ![t].pc = "done",
                              ![t].res = IF rejected THEN "InvalidProof" ELSE "Ok"]
        /\ UNCHANGED <<mutex, now, proofVars, hsVars, chanVars, revVars, tokVars, polVars,
                       rotVars, extVars>>

ConNext ==
    \/ ProofTickStep
    \/ CreateProof
    \/ \E t \in Threads :
          \/ validate_timestamp(t)
          \/ validate_lock(t)
          \/ validate_check_and_mark(t)
          \/ validate_unlock(t)
          \/ validate_verify(t)

(***************************************************************************)
(* Revocation (qauth revocation.rs)                                        *)
(***************************************************************************)

DEFAULT_CACHE_TTL_SECONDS == 300

\* The clock advances in steps of RevTick seconds up to RevMaxTime.
RevTick == 300
RevMaxTime == 600

\* Revocation ids are 16-byte arrays; rid r is the array of sixteen bytes r.
Rids == {1, 2}

\* The ids added to the filter on its own are 1..MaxBloomRid.
MaxBloomRid == 7
BloomRids == 1..MaxBloomRid
RidBytes(r) == [i \in 1..16 |-> r]

\* revoke_subject is called for the subjects in Subjects; tokens of every
\* subject in AllSubjects are looked up.
Subjects == {"alice"}
AllSubjects == Subjects \cup {"bob"}

\* The filter get_bloom_filter builds for at most 100 entries at a false
\* positive rate of 0.01: optimal_size gives ceil(-(100 ln 0.01) / (ln 2)^2)
\* = 959 bits, optimal_hashes ceil((959 / 100) ln 2) = 7 hash functions.
BloomSizeBits == 959
BloomNumHashes == 7

\* 64-bit words are four 16-bit limbs, least significant first.
RECURSIVE XorBits(_, _, _)
XorBits(a, b, n) ==
    IF n = 0 THEN 0
    ELSE (((a % 2) + (b % 2)) % 2) + 2 * XorBits(a \div 2, b \div 2, n - 1)

\* hash.wrapping_mul(1099511628211), the prime being 2^40 + 435.
FnvMul(h) ==
    LET p0 == h[1] * 435
        p1 == (h[2] * 435) + (p0 \div 65536)
        p2 == (h[3] * 435) + (p1 \div 65536) + ((h[1] % 256) * 256)
        p3 == (h[4] * 435) + (p2 \div 65536) + ((h[2] % 256) * 256) + (h[1] \div 256)
    IN  <<p0 % 65536, p1 % 65536, p2 % 65536, p3 % 65536>>

RECURSIVE FnvFold(_, _, _)
FnvFold(h, data, i) ==
    IF i > Len(data) THEN h
    ELSE FnvFold(FnvMul([h EXCEPT ![1] = XorBits(@, data[i], 16)]), data, i + 1)

\* RevocationBloomFilter::hash: FNV-1a from 14695981039346656037 + seed.
BloomHash(data, seed) ==
    LET s0 == 8997 + seed
        s1 == 33826 + (s0 \div 65536)
        s2 == 40164 + (s1 \div 65536)
        s3 == 52210 + (s2 \div 65536)
    IN  FnvFold(<<s0 % 65536, s1 % 65536, s2 % 65536, s3 % 65536>>, data, 1)

\* hash % size_bits
BitIndex(h, size_bits) ==
    LET m3 == h[4] % size_bits
        m2 == ((m3 * 65536) + h[3]) % size_bits
        m1 == ((m2 * 65536) + h[2]) % size_bits
    IN  ((m1 * 65536) + h[1]) % size_bits

\* The bits add sets, and might_contain tests, for each rid.
BloomBitsOf ==
    [r \in BloomRids |-> {BitIndex(BloomHash(RidBytes(r), i), BloomSizeBits)
                        : i \in 0..(BloomNumHashes - 1)}]

RevocationBloomFilter_new == [bits |-> {}, num_hashes |-> BloomNumHashes,
                              size_bits |-> BloomSizeBits]

RevocationBloomFilter_add(self, r) == [self EXCEPT !.bits = @ \cup BloomBitsOf[r]]

RevocationBloomFilter_might_contain(self, r) == BloomBitsOf[r] \subseteq self.bits

\* v as u32, to_be_bytes(): the four low-order bytes of v, highest first.
U32BeBytes(v) == <<(v \div 16777216) % 256, (v \div 65536) % 256, (v \div 256) % 256, v % 256>>

\* u32::from_be_bytes of the four bytes from position start.
U32FromBe(bytes, start) ==
    (bytes[start] * 16777216) + (bytes[start + 1] * 65536) + (bytes[start + 2] * 256)
        + bytes[start + 3]

\* Byte j (1..8, highest first) of word number word of the bit array
\* (word.to_be_bytes()): bit b of that byte is bit 64 * word + 8 * (8 - j) + b
\* of the filter.
WordByte(bits, word, j) ==
    LET base == (64 * word) + (8 * (8 - j))
        RECURSIVE Pack(_)
        Pack(b) == IF b > 7 THEN 0
                   ELSE (IF (base + b) \in bits THEN 1 ELSE 0) + (2 * Pack(b + 1))
    IN  Pack(0)

\* The positions of the one bits of a byte.
RECURSIVE BitsOfByte(_, _)
BitsOfByte(byte, b) ==
    IF b > 7 THEN {}
    ELSE (IF byte % 2 = 1 THEN {b} ELSE {}) \cup BitsOfByte(byte \div 2, b + 1)

RevocationBloomFilter_to_bytes_WordsLowestFirst(self) ==
    LET num_u64s == (self.size_bits + 63) \div 64
    IN  U32BeBytes(self.num_hashes) \o U32BeBytes(self.size_bits)
           \o [k \in 1..(8 * num_u64s) |->
                  WordByte(self.bits, (k - 1) \div 8, 8 - ((k - 1) % 8))]

RevocationBloomFilter_to_bytes(self) ==
    LET num_u64s == (self.size_bits + 63) \div 64
    IN  U32BeBytes(self.num_hashes) \o U32BeBytes(self.size_bits)
           \o [k \in 1..(8 * num_u64s) |->
                  WordByte(self.bits, (k - 1) \div 8, ((k - 1) % 8) + 1)]

RevocationBloomFilter_from_bytes(bytes) ==
    IF Len(bytes) < 8 THEN Err("InvalidInput")
    ELSE LET num_hashes == U32FromBe(bytes, 1)
             size_bits == U32FromBe(bytes, 5)
             num_u64s == (size_bits + 63) \div 64
         IN  IF Len(bytes) < 8 + (num_u64s * 8) THEN Err("InvalidInput")
             ELSE Ok([bits |-> UNION {{(64 * i) + (8 * (8 - j)) + b
                                          : b \in BitsOfByte(bytes[8 + (i * 8) + j], 0)}
                                      : i \in 0..(num_u64s - 1), j \in 1..8},
                      num_hashes |-> num_hashes, size_bits |-> size_bits])

RevocationStatus_not_revoked == [revoked |-> FALSE, revoked_at |-> None]

RevocationStatus_revoked(entry) == [revoked |-> TRUE, revoked_at |-> Some(entry.revoked_at)]

\* A cache that serves a status until it is older than the TTL.
RevocationCache_get_UpToTtl(cache, r) ==
    IF IsSome(cache.entries[r]) /\ now - Unwrap(cache.entries[r]).cached_at <= cache.ttl
    THEN Some(Unwrap(cache.entries[r]).status)
    ELSE None

RevocationCache_get(cache, r) ==
    IF IsSome(cache.entries[r]) /\ now - Unwrap(cache.entries[r]).cached_at < cache.ttl
    THEN Some(Unwrap(cache.entries[r]).status)
    ELSE None

RevocationCache_set(cache, r, status) ==
    [cache EXCEPT !.entries[r] = Some([status |-> status, cached_at |-> now])]

RevocationCache_is_subject_revoked_UpToRevokedAt(cache, subject_id, token_iat) ==
    /\ IsSome(cache.subject_revocations[subject_id])
    /\ token_iat <= Unwrap(cache.subject_revocations[subject_id])

RevocationCache_is_subject_revoked(cache, subject_id, token_iat) ==
    /\ IsSome(cache.subject_revocations[subject_id])
    /\ token_iat < Unwrap(cache.subject_revocations[subject_id])

InMemoryRevocationStore_is_revoked(self, r) ==
    IF IsSome(self.revocations[r])
    THEN RevocationStatus_revoked(Unwrap(self.revocations[r]))
    ELSE RevocationStatus_not_revoked

InMemoryRevocationStore_get_bloom_filter(self) ==
    LET filter == RevocationBloomFilter_new
        keys == {r \in Rids : IsSome(self.revocations[r])}
    IN  [filter EXCEPT !.bits =
            UNION {RevocationBloomFilter_add(filter, r).bits : r \in keys}]

\* The answer of is_revoked and the checker it leaves (its cache is written).
RevocationChecker_is_revoked(self, st, r) ==
    LET cached == RevocationCache_get(self.cache, r)
        status == InMemoryRevocationStore_is_revoked(st, r)
    IN  IF IsSome(cached)
        THEN [res |-> Unwrap(cached).revoked, checker |-> self]
        ELSE IF /\ IsSome(self.bloom_filter)
                /\ ~RevocationBloomFilter_might_contain(Unwrap(self.bloom_filter), r)
        THEN [res |-> FALSE,
              checker |-> [self EXCEPT !.cache =
                              RevocationCache_set(@, r, RevocationStatus_not_revoked)]]
        ELSE [res |-> status.revoked,
              checker |-> [self EXCEPT !.cache = RevocationCache_set(@, r, status)]]

RevInit ==
    /\ store = [revocations |-> [r \in Rids |-> None],
                subject_revocations |-> [s \in AllSubjects |-> None]]
    /\ checker = [cache |-> [entries |-> [r \in Rids |-> None],
                             subject_revocations |-> [s \in AllSubjects |-> None],
                             ttl |-> DEFAULT_CACHE_TTL_SECONDS],
                  bloom_filter |-> None]
    /\ revokedVia = [r \in Rids |-> "never"]
    /\ rlast = [op |-> "update", rid |-> 1, res |-> "Ok"]

RevTickStep ==
    /\ now + RevTick <= RevMaxTime
    /\ now' = now + RevTick
    /\ UNCHANGED <<revVars, hsVars, chanVars, proofVars, tokVars, polVars, rotVars, conVars, extVars>>

\* The call record of an operation that returns no answer.
RevDone == [op |-> "update", rid |-> 1, res |-> "Ok"]

BoolStr(b) == IF b THEN "true" ELSE "false"

is_revoked(r) ==
    LET result == RevocationChecker_is_revoked(checker, store, r)
    IN  /\ checker' = result.checker
        /\ rlast' = [op |-> "is_revoked", rid |-> r, res |-> BoolStr(result.res)]
        /\ UNCHANGED <<now, store, revokedVia, hsVars, chanVars, proofVars, tokVars, polVars, rotVars, conVars, extVars>>

is_token_revoked(r, subject_id, token_iat) ==
    LET result == RevocationChecker_is_revoked(checker, store, r)
    IN  /\ IF RevocationCache_is_subject_revoked(checker.cache, subject_id, token_iat)
           THEN /\ rlast' = [op |-> "is_token_revoked", rid |-> r, res |-> "true",
                            subject_id |-> subject_id, token_iat |-> token_iat]
                /\ UNCHANGED checker
           ELSE /\ checker' = result.checker
                /\ rlast' = [op |-> "is_token_revoked", rid |-> r, res |-> BoolStr(result.res),
                            subject_id |-> subject_id, token_iat |-> token_iat]
        /\ UNCHANGED <<now, store, revokedVia, hsVars, chanVars, proofVars, tokVars, polVars, rotVars, conVars, extVars>>

refresh_bloom_filter ==
    /\ checker' = [checker EXCEPT !.bloom_filter =
                      Some(InMemoryRevocationStore_get_bloom_filter(store))]
    /\ rlast' = RevDone
    /\ UNCHANGED <<now, store, revokedVia, hsVars, chanVars, proofVars, tokVars, polVars, rotVars, conVars, extVars>>

revoke(r) ==
    \E token_expiry \in {now + 2 * RevTick} :
        /\ store' = [store EXCEPT !.revocations[r] =
                        Some([revoked_at |-> now, token_expiry |-> token_expiry])]
        /\ checker' = [checker EXCEPT !.cache =
                          RevocationCache_set(@, r, [revoked |-> TRUE, revoked_at |-> Some(now)])]
        /\ revokedVia' = [revokedVia EXCEPT ![r] = "checker"]
        /\ rlast' = RevDone
        /\ UNCHANGED <<now, hsVars, chanVars, proofVars, tokVars, polVars, rotVars, conVars, extVars>>

revoke_subject(subject_id) ==
    /\ store' = [store EXCEPT !.subject_revocations[subject_id] = Some(now)]
    /\ checker' = [checker EXCEPT !.cache.subject_revocations[subject_id] = Some(now)]
    /\ rlast' = RevDone
    /\ UNCHANGED <<now, revokedVia, hsVars, chanVars, proofVars, tokVars, polVars, rotVars, conVars, extVars>>

\* Another node of the deployment revokes in the shared store.
store_revoke(r, token_expiry) ==
        /\ store' = [store EXCEPT !.revocations[r] =
                        Some([revoked_at |-> now, token_expiry |-> token_expiry])]
        /\ revokedVia' = [revokedVia EXCEPT ![r] = IF @ = "never" THEN "store" ELSE @]
        /\ rlast' = RevDone
        /\ UNCHANGED <<now, checker, hsVars, chanVars, proofVars, tokVars, polVars, rotVars, conVars, extVars>>

InMemoryRevocationStore_cleanup_KeepsExpiringNow(self) ==
    [self EXCEPT !.revocations =
        [r \in Rids |-> IF IsSome(@[r]) /\ Unwrap(@[r]).token_expiry >= now
                        THEN @[r] ELSE None]]

\* revocations.retain(|_, entry| entry.token_expiry > now)
InMemoryRevocationStore_cleanup(self) ==
    [self EXCEPT !.revocations =
        [r \in Rids |-> IF IsSome(@[r]) /\ Unwrap(@[r]).token_expiry > now
                        THEN @[r] ELSE None]]

store_cleanup ==
    /\ store' = InMemoryRevocationStore_cleanup(store)
    /\ rlast' = [op |-> "cleanup", rid |-> 1, res |-> "Ok"]
    /\ UNCHANGED <<now, checker, revokedVia, hsVars, chanVars, proofVars, tokVars, polVars, rotVars, conVars, extVars>>

cache_cleanup ==
    /\ checker' = [checker EXCEPT !.cache.entries =
                      [r \in Rids |-> IF IsSome(@[r])
                                         /\ now - Unwrap(@[r]).cached_at < checker.cache.ttl
                                      THEN @[r] ELSE None]]
    /\ rlast' = RevDone
    /\ UNCHANGED <<now, store, revokedVia, hsVars, chanVars, proofVars, tokVars, polVars, rotVars, conVars, extVars>>

RevNext ==
    \/ RevTickStep
    \/ \E r \in Rids : is_revoked(r) \/ revoke(r) \/ store_revoke(r, now + 2 * RevTick)
    \/ \E r \in Rids, s \in AllSubjects, iat \in {0, RevTick} : is_token_revoked(r, s, iat)
    \/ \E s \in Subjects : revoke_subject(s)
    \/ refresh_bloom_filter
    \/ store_cleanup
    \/ cache_cleanup

(***************************************************************************)
(* The InMemoryRevocationStore on its own, with tokens of several          *)
(* lifetimes, one of them expired when it is revoked.                      *)
(***************************************************************************)
StoreNext ==
    \/ RevTickStep
    \/ \E r \in Rids, lifetime \in {0, RevTick, 2 * RevTick} : store_revoke(r, now + lifetime)
    \/ store_cleanup

(***************************************************************************)
(* The checker's cache against a store that other nodes write: the clock   *)
(* moves in steps of half a cache TTL, so that a lookup can fall inside    *)
(* and outside the TTL of a cached status.                                 *)
(***************************************************************************)
StaleInit == nodeRevokedAt = [r \in Rids |-> -1]

StaleTickStep ==
    /\ now + (RevTick \div 2) <= RevMaxTime
    /\ now' = now + (RevTick \div 2)
    /\ UNCHANGED <<coreVars, extVars>>

\* Another node of the deployment revokes in the shared store; the checker is
\* not told.
node_revoke(r, token_expiry) ==
    /\ store' = [store EXCEPT !.revocations[r] =
                    Some([revoked_at |-> now, token_expiry |-> token_expiry])]
    /\ revokedVia' = [revokedVia EXCEPT ![r] = IF @ = "never" THEN "store" ELSE @]
    /\ nodeRevokedAt' = [nodeRevokedAt EXCEPT ![r] = now]
    /\ rlast' = RevDone
    /\ UNCHANGED <<now, checker, hsVars, chanVars, proofVars, tokVars, polVars, rotVars,
                   conVars, bloom, codec, qtb, dsig, cas, rd, bnd>>

StaleNext ==
    \/ StaleTickStep
    \/ \E r \in Rids : is_revoked(r)
    \/ \E r \in Rids : node_revoke(r, now + RevTick)
    \/ store_cleanup
    \/ refresh_bloom_filter

(***************************************************************************)
(* The bloom filter on its own (qauth revocation.rs)                       *)
(***************************************************************************)
BloomInit ==
    bloom = [filter |-> RevocationBloomFilter_new, added |-> {}, rebuilt |-> FALSE]

bloom_add(r) ==
    /\ bloom' = [bloom EXCEPT !.filter = RevocationBloomFilter_add(@, r),
                              !.added = @ \cup {r}]
    /\ UNCHANGED <<now, coreVars, codec, qtb, dsig, cas, rd, bnd, nodeRevokedAt>>

\* The filter is sent as bytes and the receiver goes on with the copy it
\* rebuilds; bytes that do not parse leave a filter without bits.
bloom_rebuild ==
    LET restored == RevocationBloomFilter_from_bytes(RevocationBloomFilter_to_bytes(bloom.filter))
    IN  /\ bloom' = [bloom EXCEPT !.filter = IF restored.ok THEN restored.v
                                              ELSE RevocationBloomFilter_new,
                                  !.rebuilt = TRUE]
        /\ UNCHANGED <<now, coreVars, codec, qtb, dsig, cas, rd, bnd, nodeRevokedAt>>

BloomNext == (\E r \in BloomRids : bloom_add(r)) \/ bloom_rebuild

(***************************************************************************)
(* Tokens (qauth token.rs)                                                 *)
(***************************************************************************)

\* The clock advances in steps of TokTick seconds up to TokMaxTime.
TokTick == 60
TokMaxTime == 180

\* Key material is named by its owner: the issuer's, or an attacker's.
IssuerSigningKeys_generate(id) == [ed25519 |-> <<"ed25519", id>>, mldsa |-> <<"mldsa", id>>]

IssuerVerifyingKeys_key_id(self) == sha256(<<"QA", self.ed25519, self.mldsa>>)

IssuerSigningKeys_sign(self, message) ==
    [ed25519 |-> Ed25519_sign(self.ed25519, message),
     mldsa |-> [key |-> self.mldsa, message |-> message]]

\* A verifier that stops after the Ed25519 signature.
IssuerVerifyingKeys_verify_Ed25519Only(self, message, signature) ==
    IF ~Ed25519_verify(self.ed25519, message, signature.ed25519)
    THEN Err("CryptoError")
    ELSE Ok("unit")

IssuerVerifyingKeys_verify(self, message, signature) ==
    IF ~Ed25519_verify(self.ed25519, message, signature.ed25519)
    THEN Err("CryptoError")
    ELSE IF ~(signature.mldsa.key = self.mldsa /\ signature.mldsa.message = message)
    THEN Err("CryptoError")
    ELSE Ok("unit")

EncryptionKey_encrypt(key, plaintext, aad) == [key |-> key, aad |-> aad, body |-> plaintext]

EncryptionKey_decrypt(key, encrypted, aad) ==
    IF encrypted.key = key /\ encrypted.aad = aad
    THEN Ok(encrypted.body)
    ELSE Err("CryptoError")

QTokenHeader_new(token_type, key_id) ==
    [version |-> 1, token_type |-> token_type, key_id |-> key_id,
     timestamp |-> now * 1000]

QTokenHeader_to_bytes(self) ==
    <<self.version, self.token_type, self.key_id, self.timestamp>>

QTokenPayload_new(subject, issuer, audience, policy_ref, validity_seconds, rid) ==
    [sub |-> subject, iss |-> issuer, aud |-> audience,
     exp |-> now + validity_seconds, iat |-> now, nbf |-> now,
     rid |-> rid, pol |-> policy_ref]

QTokenPayload_to_cbor(self) ==
    <<self.sub, self.iss, self.aud, self.exp, self.iat, self.nbf, self.rid, self.pol>>

QTokenPayload_from_cbor(bytes) ==
    IF Len(bytes) = 8
    THEN Ok([sub |-> bytes[1], iss |-> bytes[2], aud |-> bytes[3], exp |-> bytes[4],
             iat |-> bytes[5], nbf |-> bytes[6], rid |-> bytes[7], pol |-> bytes[8]])
    ELSE Err("SerializationError")

QToken_create(token_type, payload, binding, signing_keys, encryption_key) ==
    LET header == QTokenHeader_new(token_type, IssuerVerifyingKeys_key_id(signing_keys))
        header_bytes == QTokenHeader_to_bytes(header)
        encrypted_payload ==
            EncryptionKey_encrypt(encryption_key, QTokenPayload_to_cbor(payload), header_bytes)
        message == <<header_bytes, encrypted_payload>>
    IN  [header |-> header, encrypted_payload |-> encrypted_payload,
         signature |-> IssuerSigningKeys_sign(signing_keys, message),
         binding |-> binding]

\* A verification of a signature made over the binding as well.
QToken_verify_signatures_CoversBinding(self, verifying_keys) ==
    LET message == <<QTokenHeader_to_bytes(self.header), self.encrypted_payload, self.binding>>
    IN  IF self.header.key_id # IssuerVerifyingKeys_key_id(verifying_keys)
        THEN Err("E008")
        ELSE IF ~IssuerVerifyingKeys_verify(verifying_keys, message, self.signature).ok
        THEN Err("E003")
        ELSE Ok("unit")

QToken_verify_signatures(self, verifying_keys) ==
    LET message == <<QTokenHeader_to_bytes(self.header), self.encrypted_payload>>
    IN  IF self.header.key_id # IssuerVerifyingKeys_key_id(verifying_keys)
        THEN Err("E008")
        ELSE IF ~IssuerVerifyingKeys_verify(verifying_keys, message, self.signature).ok
        THEN Err("E003")
        ELSE Ok("unit")

QToken_decrypt_payload(self, encryption_key) ==
    LET payload_bytes == EncryptionKey_decrypt(encryption_key, self.encrypted_payload,
                                               QTokenHeader_to_bytes(self.header))
    IN  IF ~payload_bytes.ok
        THEN Err("E004")
        ELSE QTokenPayload_from_cbor(payload_bytes.v)

QTokenValidator_new(verifying_keys, encryption_key, expected_issuer, expected_audience) ==
    [verifying_keys |-> verifying_keys, encryption_key |-> encryption_key,
     expected_issuer |-> expected_issuer, expected_audience |-> expected_audience,
     clock_skew_seconds |-> 60]

\* The code every failure carries, or "Ok"; what validate checks, in its order,
\* but the audience before the times.
QTokenValidator_validate_AudienceFirst(self, token) ==
    LET signatures == QToken_verify_signatures(token, self.verifying_keys)
        payload == QToken_decrypt_payload(token, self.encryption_key)
    IN  IF ~signatures.ok THEN signatures.err
        ELSE IF ~payload.ok THEN payload.err
        ELSE IF ~(\E i \in 1..Len(payload.v.aud) : payload.v.aud[i] = self.expected_audience) THEN "E007"
        ELSE IF now > payload.v.exp + self.clock_skew_seconds THEN "E005"
        ELSE IF now < payload.v.nbf - self.clock_skew_seconds THEN "E006"
        ELSE IF payload.v.iss # self.expected_issuer THEN "E008"
        ELSE "Ok"

QTokenValidator_validate(self, token) ==
    LET signatures == QToken_verify_signatures(token, self.verifying_keys)
        payload == QToken_decrypt_payload(token, self.encryption_key)
    IN  IF ~signatures.ok THEN signatures.err
        ELSE IF ~payload.ok THEN payload.err
        ELSE IF now > payload.v.exp + self.clock_skew_seconds THEN "E005"
        ELSE IF now < payload.v.nbf - self.clock_skew_seconds THEN "E006"
        ELSE IF payload.v.iss # self.expected_issuer THEN "E008"
        ELSE IF ~(\E i \in 1..Len(payload.v.aud) : payload.v.aud[i] = self.expected_audience) THEN "E007"
        ELSE "Ok"

\* The resource server's validator, as the tests of token.rs build it.
Validator ==
    QTokenValidator_new(IssuerSigningKeys_generate("issuer"), "encryption_key",
                        "https://auth.example.com", "https://api.example.com")

TokInit ==
    /\ tok = None
    /\ tlast = [op |-> "none"]

TokTickStep ==
    /\ now + TokTick <= TokMaxTime
    /\ now' = now + TokTick
    /\ UNCHANGED <<tokVars, hsVars, chanVars, proofVars, revVars, polVars, rotVars, conVars, extVars>>

\* The issuer builds a payload that lives for TokTick seconds, for the expected
\* issuer and audience or for others, valid at once or only later, and creates
\* the token under the current payload key or one the validator does not hold.
IssueToken ==
    \E iss \in {"https://auth.example.com", "https://other.example.com"},
       aud \in {<<"https://api.example.com">>, <<"https://wrong-api.example.com">>},
       off \in {0, 2 * TokTick},
       ek \in {"encryption_key", "old_encryption_key"},
       rid \in {1}, sub \in Subjects :
        LET payload == [QTokenPayload_new(sub, iss, aud, "urn:qauth:policy:default",
                                          TokTick, rid)
                           EXCEPT !.nbf = @ + off]
        IN  /\ tok = None
            /\ tok' = Some(QToken_create("access", payload, "binding",
                                         IssuerSigningKeys_generate("issuer"), ek))
            /\ UNCHANGED <<now, tlast, hsVars, chanVars, proofVars, revVars, polVars, rotVars, conVars, extVars>>

\* The plaintext payload inside a token (read by the model, not by a party).
PayloadOf(token) == QTokenPayload_from_cbor(token.encrypted_payload.body).v

\* What an attacker who holds only its own keys can make of the issued token.
TokenInputs ==
    IF tok = None THEN {}
    ELSE LET t == Unwrap(tok)
             mallory ==
                 IssuerSigningKeys_sign(IssuerSigningKeys_generate("mallory"),
                                        <<QTokenHeader_to_bytes(t.header), t.encrypted_payload>>)
         IN  {[kind |-> "honest", token |-> t],
              [kind |-> "bad_ed25519",
               token |-> [t EXCEPT !.signature.ed25519 = mallory.ed25519]],
              [kind |-> "bad_mldsa",
               token |-> [t EXCEPT !.signature.mldsa = mallory.mldsa]],
              [kind |-> "payload",
               token |-> [t EXCEPT !.encrypted_payload.body =
                             QTokenPayload_to_cbor([PayloadOf(t) EXCEPT !.exp = @ + TokMaxTime])]],
              [kind |-> "key_id",
               token |-> [t EXCEPT !.header.key_id =
                             IssuerVerifyingKeys_key_id(IssuerSigningKeys_generate("mallory"))]],
              [kind |-> "foreign",
               token |-> QToken_create("access", PayloadOf(t), "binding",
                                       IssuerSigningKeys_generate("mallory"),
                                       "mallory_key")]}

\* The truth about the token in the deployment's revocation store.
StoreRevoked(payload) ==
    \/ IsSome(store.revocations[payload.rid])
    \/ /\ IsSome(store.subject_revocations[payload.sub])
       /\ payload.iat < Unwrap(store.subject_revocations[payload.sub])

validate ==
    \E in \in TokenInputs :
        /\ tlast' = [op |-> "validate", kind |-> in.kind, token |-> in.token, at |-> now,
                     res |-> QTokenValidator_validate(Validator, in.token),
                     revoked |-> StoreRevoked(PayloadOf(in.token))]
        /\ UNCHANGED <<now, tok, hsVars, chanVars, proofVars, revVars, polVars, rotVars, conVars, extVars>>

TokNext ==
    \/ TokTickStep
    \/ IssueToken
    \/ validate
    \/ revoke(1)
    \/ \E s \in Subjects : revoke_subject(s)

(***************************************************************************)
(* Token serialization (qauth token.rs, crypto.rs)                         *)
(*                                                                         *)
(* A byte string is a sequence of pieces, [of, size, from, to] being the    *)
(* bytes from .. to - 1 of the size bytes that encode of.  Reading a field *)
(* back gives the value when the bytes read are its whole encoding, and    *)
(* otherwise a value [raw |-> pieces] that encodes to the bytes read.      *)
(***************************************************************************)
HEADER_SIZE == 42
PROOF_BINDING_SIZE == 96
ED25519_SIGNATURE_SIZE == 64
MLDSA_SIGNATURE_SIZE == 3309
DUAL_SIGNATURE_SIZE == ED25519_SIGNATURE_SIZE + MLDSA_SIGNATURE_SIZE
XCHACHA20_NONCE_SIZE == 24
XCHACHA20_TAG_SIZE == 16

Piece(value, len) == <<[of |-> value, size |-> len, from |-> 0, to |-> len]>>

RECURSIVE BytesLen(_)
BytesLen(bytes) ==
    IF bytes = <<>> THEN 0 ELSE (Head(bytes).to - Head(bytes).from) + BytesLen(Tail(bytes))

\* bytes[a..b]
RECURSIVE Slice(_, _, _)
Slice(bytes, a, b) ==
    IF bytes = <<>> \/ b <= 0 THEN <<>>
    ELSE LET p == Head(bytes)
             n == p.to - p.from
             lo == IF a > 0 THEN a ELSE 0
             hi == IF b < n THEN b ELSE n
         IN  (IF lo < hi THEN <<[p EXCEPT !.from = p.from + lo, !.to = p.from + hi]>>
              ELSE <<>>)
             \o Slice(Tail(bytes), a - n, b - n)

\* The value a field of len bytes is read as.
ReadField(bytes, len) ==
    IF Len(bytes) = 1 /\ bytes[1].from = 0 /\ bytes[1].to = bytes[1].size /\ bytes[1].size = len
    THEN bytes[1].of
    ELSE [raw |-> bytes]

IsRaw(value) == "raw" \in DOMAIN value

\* The length of payload.to_cbor(): it grows with sub and cst, and the
\* subject of a token built here is written with that length.
CborLen(payload_bytes) == payload_bytes[1].encoded_len

\* nonce || ciphertext, the ciphertext being the plaintext and a tag.
EncryptedData_to_bytes(self) ==
    IF IsRaw(self) THEN self.raw
    ELSE Piece(self, XCHACHA20_NONCE_SIZE + CborLen(self.body) + XCHACHA20_TAG_SIZE)

EncryptedData_from_bytes(bytes) ==
    IF BytesLen(bytes) < XCHACHA20_NONCE_SIZE THEN Err("InvalidInput")
    ELSE Ok(ReadField(bytes, BytesLen(bytes)))

DualSignature_to_bytes(self) ==
    (IF IsRaw(self.ed25519) THEN self.ed25519.raw ELSE Piece(self.ed25519, ED25519_SIGNATURE_SIZE))
    \o (IF IsRaw(self.mldsa) THEN self.mldsa.raw ELSE Piece(self.mldsa, MLDSA_SIGNATURE_SIZE))

DualSignature_from_bytes(bytes) ==
    IF BytesLen(bytes) < DUAL_SIGNATURE_SIZE THEN Err("InvalidInput")
    ELSE Ok([ed25519 |-> ReadField(Slice(bytes, 0, ED25519_SIGNATURE_SIZE), ED25519_SIGNATURE_SIZE),
             mldsa |-> ReadField(Slice(bytes, ED25519_SIGNATURE_SIZE, DUAL_SIGNATURE_SIZE),
                                 MLDSA_SIGNATURE_SIZE)])

ProofBinding_to_bytes(self) ==
    IF IsRaw(self) THEN self.raw ELSE Piece(self, PROOF_BINDING_SIZE)

ProofBinding_from_bytes(bytes) ==
    IF BytesLen(bytes) < PROOF_BINDING_SIZE THEN Err("InvalidInput")
    ELSE Ok(ReadField(Slice(bytes, 0, PROOF_BINDING_SIZE), PROOF_BINDING_SIZE))

QTokenHeader_from_bytes(bytes) ==
    LET header == ReadField(Slice(bytes, 0, HEADER_SIZE), HEADER_SIZE)
    IN  IF BytesLen(bytes) < HEADER_SIZE THEN Err("InvalidInput")
        ELSE IF IsRaw(header) THEN Err("InvalidInput")
        ELSE IF header.version # 1 THEN Err("E005")
        ELSE IF header.token_type \notin {"access", "refresh", "identity", "device"}
        THEN Err("InvalidInput")
        ELSE Ok(header)

\* encrypted_bytes.len() as u16, written with to_be_bytes
QToken_to_bytes(self) ==
    LET encrypted_bytes == EncryptedData_to_bytes(self.encrypted_payload)
        encrypted_len == BytesLen(encrypted_bytes) % 65536
    IN  Piece(self.header, HEADER_SIZE)
        \o Piece([u16 |-> encrypted_len], 2)
        \o encrypted_bytes
        \o DualSignature_to_bytes(self.signature)
        \o ProofBinding_to_bytes(self.binding)

\* The byte strings parsed here are those to_bytes wrote, in which the two
\* bytes after the header are the length field.
QToken_from_bytes(bytes) ==
    LET header == QTokenHeader_from_bytes(Slice(bytes, 0, HEADER_SIZE))
        encrypted_len == ReadField(Slice(bytes, HEADER_SIZE, HEADER_SIZE + 2), 2).u16
        encrypted_start == HEADER_SIZE + 2
        encrypted_end == encrypted_start + encrypted_len
        encrypted_payload == EncryptedData_from_bytes(Slice(bytes, encrypted_start, encrypted_end))
        sig_start == encrypted_end
        sig_end == sig_start + DUAL_SIGNATURE_SIZE
        signature == DualSignature_from_bytes(Slice(bytes, sig_start, sig_end))
        binding == ProofBinding_from_bytes(Slice(bytes, sig_end, BytesLen(bytes)))
    IN  IF BytesLen(bytes) < HEADER_SIZE + 2 THEN Err("InvalidInput")
        ELSE IF ~header.ok THEN header
        ELSE IF BytesLen(bytes) < encrypted_end + DUAL_SIGNATURE_SIZE + PROOF_BINDING_SIZE
        THEN Err("InvalidInput")
        ELSE IF ~encrypted_payload.ok THEN encrypted_payload
        ELSE IF ~signature.ok THEN signature
        ELSE IF ~binding.ok THEN binding
        ELSE Ok([header |-> header.v, encrypted_payload |-> encrypted_payload.v,
                 signature |-> signature.v, binding |-> binding.v])

\* URL_SAFE_NO_PAD.encode(self.to_bytes()); the alphabet has no padding and
\* decode gives back the bytes encoded.
QToken_encode(self) == [base64url |-> QToken_to_bytes(self)]

QToken_decode(s) == QToken_from_bytes(s.base64url)

\* The payloads encode to a few hundred bytes, or to so many that the
\* encrypted payload is 65535, 65536 or some 70000 bytes long.
CborLens ==
    {300, 65535 - (XCHACHA20_NONCE_SIZE + XCHACHA20_TAG_SIZE),
     65536 - (XCHACHA20_NONCE_SIZE + XCHACHA20_TAG_SIZE), 70000}

CodecInit == codec = [op |-> "none"]

QToken_create_then_decode ==
    \E encoded_len \in CborLens,
       iss \in {"https://auth.example.com", "https://other.example.com"},
       aud \in {<<"https://api.example.com">>, <<"https://wrong-api.example.com">>},
       token_type \in {"access", "refresh"},
       subject \in {"alice", "bob"} :
        LET payload == QTokenPayload_new([id |-> subject, encoded_len |-> encoded_len], iss,
                                         aud, "urn:qauth:policy:default", TokTick, 1)
            token == QToken_create(token_type, payload,
                                   [device_key |-> sha256("device"),
                                    client_key |-> sha256("client-key"),
                                    ip_hash |-> <<"zeros">>],
                                   IssuerSigningKeys_generate("issuer"), "encryption_key")
        IN  /\ codec' = [op |-> "decode", payload |-> payload, token |-> token,
                         decoded |-> QToken_decode(QToken_encode(token))]
            /\ UNCHANGED <<now, coreVars, bloom, qtb, dsig, cas, rd, bnd, nodeRevokedAt>>

CodecNext == TokTickStep \/ QToken_create_then_decode

(***************************************************************************)
(* Token builder (qauth token.rs)                                          *)
(***************************************************************************)
ProofBinding_new(device_key, client_key, ip_hash) ==
    [device_key |-> device_key, client_key |-> client_key,
     ip_hash |-> IF IsSome(ip_hash) THEN Unwrap(ip_hash) ELSE <<"zeros">>]

QTokenBuilder_access_token ==
    [token_type |-> "access", subject |-> [id |-> "", encoded_len |-> 250],
     issuer |-> "", audience |-> <<>>,
     policy_ref |-> "", validity_seconds |-> 3600,
     device_key |-> <<"zeros">>, client_key |-> <<"zeros">>, ip_hash |-> None]

QTokenBuilder_refresh_token ==
    [QTokenBuilder_access_token EXCEPT !.token_type = "refresh",
                                       !.validity_seconds = 7 * 24 * 3600]

\* A subject is written with the length of the CBOR encoding of the payload
\* that carries it (see CborLen).

\* The values given to validity_seconds: any i64 is taken as it is.
ValiditySeconds == {-3600, -1, 0, TokTick}

BuilderInit == qtb = [builder |-> QTokenBuilder_access_token, token |-> None]

BuilderDone == UNCHANGED <<now, coreVars, bloom, codec, dsig, cas, rd, bnd, nodeRevokedAt>>

access_token ==
    /\ qtb' = [qtb EXCEPT !.builder = QTokenBuilder_access_token]
    /\ BuilderDone

refresh_token ==
    /\ qtb' = [qtb EXCEPT !.builder = QTokenBuilder_refresh_token]
    /\ BuilderDone

validity_seconds(seconds) ==
    /\ qtb' = [qtb EXCEPT !.builder.validity_seconds = seconds]
    /\ BuilderDone

\* .subject(..).issuer(..).audience(..).policy_ref(..).client_key(..), as the
\* tests configure a builder, for the expected audience or another.
configure(aud) ==
    /\ qtb' = [qtb EXCEPT !.builder.subject = [id |-> "user-123", encoded_len |-> 258],
                          !.builder.issuer = "https://auth.example.com",
                          !.builder.audience = <<aud>>,
                          !.builder.policy_ref = "urn:qauth:policy:default",
                          !.builder.client_key = sha256("client-key")]
    /\ BuilderDone

QTokenBuilder_build(self, signing_keys, encryption_key, rid) ==
    LET payload == QTokenPayload_new(self.subject, self.issuer, self.audience, self.policy_ref,
                                     self.validity_seconds, rid)
        binding == ProofBinding_new(self.device_key, self.client_key, self.ip_hash)
    IN  QToken_create(self.token_type, payload, binding, signing_keys, encryption_key)

build ==
    \E rid \in Rids :
        /\ qtb' = [qtb EXCEPT !.token =
                       Some(QTokenBuilder_build(qtb.builder, IssuerSigningKeys_generate("issuer"),
                                                "encryption_key", rid))]
        /\ BuilderDone

BuilderNext ==
    \/ TokTickStep
    \/ access_token
    \/ refresh_token
    \/ \E seconds \in ValiditySeconds : validity_seconds(seconds)
    \/ \E aud \in {"https://api.example.com", "https://wrong-api.example.com"} : configure(aud)
    \/ build

(***************************************************************************)
(* Token binding (qauth token.rs)                                          *)
(***************************************************************************)
QToken_verify_binding(self, client_key, device_key) ==
    IF self.binding.client_key # sha256(client_key) THEN Err("E009")
    ELSE IF IsSome(device_key) /\ self.binding.device_key # sha256(Unwrap(device_key))
    THEN Err("E009")
    ELSE Ok("unit")

BindingInit == bnd = [op |-> "none"]

\* Somebody who holds the encoded token of the builder overwrites its last
\* PROOF_BINDING_SIZE bytes with a binding to a client key of their choice,
\* and presents the result to the resource server, which decodes it, validates
\* it and verifies the binding against the key of the presenter.
replace_binding ==
    \E client_key \in {"client-key", "attacker-key"}, device_key \in {None, Some("attacker-device")} :
        LET original == Unwrap(qtb.token)
            bytes == QToken_to_bytes(original)
            binding == ProofBinding_new(IF IsSome(device_key) THEN sha256(Unwrap(device_key))
                                        ELSE <<"zeros">>,
                                        sha256(client_key), None)
            replaced == Slice(bytes, 0, BytesLen(bytes) - PROOF_BINDING_SIZE)
                        \o ProofBinding_to_bytes(binding)
            decoded == QToken_decode([base64url |-> replaced])
        IN  /\ IsSome(qtb.token)
            /\ decoded.ok
            /\ bnd' = [op |-> "replace", original |-> original, token |-> decoded.v,
                       client_key |-> client_key, device_key |-> device_key, at |-> now,
                       signatures |-> QToken_verify_signatures(decoded.v,
                                                               Validator.verifying_keys).ok,
                       validated |-> QTokenValidator_validate(Validator, decoded.v),
                       bound |-> QToken_verify_binding(decoded.v, client_key, device_key).ok]
            /\ UNCHANGED <<now, coreVars, bloom, codec, qtb, dsig, cas, rd, nodeRevokedAt>>

BindingNext ==
    \/ TokTickStep
    \/ \E aud \in {"https://api.example.com", "https://wrong-api.example.com"} : configure(aud)
    \/ build
    \/ replace_binding

(***************************************************************************)
(* Dual signatures (qauth crypto.rs, quantum-shield sign/dual.rs)          *)
(***************************************************************************)
QShieldSign_sign_with_timestamp(secret_key, message, timestamp) ==
    LET message_hash == hash_message_with_timestamp(message, timestamp)
    IN  [ml_dsa    |-> MlDsa_sign(secret_key.ml_dsa, message_hash),
         slh_dsa   |-> SlhDsa_sign(secret_key.slh_dsa, message_hash),
         timestamp |-> Some(timestamp)]

\* The owners of a key pair's two halves, the classical (token signature) or
\* ML-DSA (QShieldSign) half first.
KeyOwners == {"issuer", "mallory"} \X {"issuer", "mallory"}

\* What a verifier may be handed in place of a signature: the signature, or
\* one with the bytes of its first or of its second half altered.
Alterations == {"none", "first", "second"}

SignedMessages == {<<"header", "payload">>, <<"header", "other payload">>}

DualSigInit == dsig = [scheme |-> "none"]

DualSigDone == UNCHANGED <<now, coreVars, bloom, codec, qtb, cas, rd, bnd, nodeRevokedAt>>

\* IssuerSigningKeys::sign by the issuer, IssuerVerifyingKeys::verify under
\* the keys of owners.
issuer_verify ==
    \E owners \in KeyOwners, altered \in Alterations,
       signed \in SignedMessages, message \in SignedMessages :
        LET signing_keys == IssuerSigningKeys_generate("issuer")
            verifying_keys == [ed25519 |-> IssuerSigningKeys_generate(owners[1]).ed25519,
                               mldsa |-> IssuerSigningKeys_generate(owners[2]).mldsa]
            made == IssuerSigningKeys_sign(signing_keys, signed)
            signature ==
                [ed25519 |-> IF altered = "first"
                             THEN [made.ed25519 EXCEPT !.message = <<"altered">>]
                             ELSE made.ed25519,
                 mldsa |-> IF altered = "second"
                           THEN [made.mldsa EXCEPT !.message = <<"altered">>]
                           ELSE made.mldsa]
        IN  /\ dsig' = [scheme |-> "issuer", owners |-> owners, altered |-> altered,
                        signed |-> signed, message |-> message, timestamp |-> None,
                        keys |-> verifying_keys, signature |-> signature,
                        valid |-> IssuerVerifyingKeys_verify(verifying_keys, message,
                                                             signature).ok]
            /\ DualSigDone

\* QShieldSign::sign or sign_with_timestamp by the issuer, QShieldSign::verify
\* under the keys of owners.
qshield_verify ==
    \E owners \in KeyOwners, altered \in Alterations,
       signed \in SignedMessages, message \in SignedMessages,
       timestamp \in {None, Some(now)} :
        LET secret_key == SignSecretKey("issuer")
            public_key == [ml_dsa |-> SignPublicKey(owners[1]).ml_dsa,
                           slh_dsa |-> SignPublicKey(owners[2]).slh_dsa]
            made == IF IsSome(timestamp)
                    THEN QShieldSign_sign_with_timestamp(secret_key, signed, Unwrap(timestamp))
                    ELSE QShieldSign_sign(secret_key, signed)
            signature ==
                [made EXCEPT !.ml_dsa = IF altered = "first"
                                        THEN [@ EXCEPT !.digest = <<"altered">>] ELSE @,
                             !.slh_dsa = IF altered = "second"
                                         THEN [@ EXCEPT !.digest = <<"altered">>] ELSE @]
        IN  /\ dsig' = [scheme |-> "qshield", owners |-> owners, altered |-> altered,
                        signed |-> signed, message |-> message, timestamp |-> timestamp,
                        keys |-> public_key, signature |-> signature,
                        valid |-> QShieldSign_verify(public_key, message, signature)]
            /\ DualSigDone

DualSigNext == TokTickStep \/ issuer_verify \/ qshield_verify

(***************************************************************************)
(* Cascading cipher (symmetric/cascade.rs)                                 *)
(***************************************************************************)
\* The associated data of a call: None for encrypt and decrypt, Some(bytes)
\* for encrypt_with_aad and decrypt_with_aad, the bytes empty or not.
AadChoices == {None, Some(<<>>), Some(<<"context information">>), Some(<<"different context">>)}

\* What reaches the receiver: the ciphertext, or one with a byte of the outer
\* (ChaCha20) tag altered, or one whose outer layer is authentic around an
\* AES layer that is not.
Tamperings == {"none", "outer", "inner"}

CascadeInit == cas = [op |-> "none"]

cascade_decrypt ==
    \E plaintext \in {"", "Sensitive data"}, enc_aad \in AadChoices, dec_aad \in AadChoices,
       enc_secret \in {<<"secret one">>, <<"secret two">>},
       dec_secret \in {<<"secret one">>, <<"secret two">>},
       tampering \in Tamperings :
        LET sender == QuantumShield_new(enc_secret)
            receiver == QuantumShield_new(dec_secret)
            made == IF IsSome(enc_aad)
                    THEN QuantumShield_encrypt_with_aad(sender, plaintext, Unwrap(enc_aad))
                    ELSE QuantumShield_encrypt(sender, plaintext)
            ciphertext ==
                CASE tampering = "none" -> made
                  [] tampering = "outer" -> [made EXCEPT !.key = <<"altered", @>>]
                  [] tampering = "inner" -> [made EXCEPT !.body.key = <<"altered", @>>]
        IN  /\ cas' = [op |-> "decrypt", plaintext |-> plaintext, enc_aad |-> enc_aad,
                       dec_aad |-> dec_aad, same_keys |-> (enc_secret = dec_secret),
                       tampering |-> tampering,
                       res |-> IF IsSome(dec_aad)
                               THEN QuantumShield_decrypt_with_aad(receiver, ciphertext,
                                                                   Unwrap(dec_aad))
                               ELSE QuantumShield_decrypt(receiver, ciphertext)]
            /\ UNCHANGED <<now, coreVars, bloom, codec, qtb, dsig, rd, bnd, nodeRevokedAt>>

CascadeNext == TokTickStep \/ cascade_decrypt

(***************************************************************************)
(* Serialization helpers (utils/serialize.rs)                              *)
(*                                                                         *)
(* A buffer is a sequence of bytes; offset o of the code is the number of  *)
(* bytes before the cursor, so that data[o] is the element o + 1.          *)
(***************************************************************************)
\* The longest buffer written.
MaxBufLen == 8

u32_to_le_bytes(v) ==
    <<v % 256, (v \div 256) % 256, (v \div 65536) % 256, (v \div 16777216) % 256>>

u32_from_le_bytes(b) == b[1] + 256 * b[2] + 65536 * b[3] + 16777216 * b[4]

\* The values written are below 2^32: their upper four bytes are zero.
u64_to_le_bytes(v) == u32_to_le_bytes(v) \o <<0, 0, 0, 0>>

u64_from_le_bytes(b) == u32_from_le_bytes(SubSeq(b, 1, 4))

write_length_prefixed(data, buf) == buf \o u32_to_le_bytes(Len(data)) \o data

write_fixed(data, buf) == buf \o data

write_u32(value, buf) == buf \o u32_to_le_bytes(value)

write_u64(value, buf) == buf \o u64_to_le_bytes(value)

\* Each reader gives its result and the offset it leaves behind.
read_length_prefixed(data, offset) ==
    IF offset + 4 > Len(data)
    THEN [res |-> Err("ParseError"), offset |-> offset]
    ELSE LET len == u32_from_le_bytes(SubSeq(data, offset + 1, offset + 4))
         IN  IF offset + 4 + len > Len(data)
             THEN [res |-> Err("ParseError"), offset |-> offset + 4]
             ELSE [res |-> Ok(SubSeq(data, offset + 5, offset + 4 + len)),
                   offset |-> offset + 4 + len]

read_fixed(data, offset, N) ==
    IF offset + N > Len(data)
    THEN [res |-> Err("BufferTooSmall"), offset |-> offset]
    ELSE [res |-> Ok(SubSeq(data, offset + 1, offset + N)), offset |-> offset + N]

read_u64(data, offset) ==
    LET bytes == read_fixed(data, offset, 8)
    IN  IF ~bytes.res.ok THEN bytes
        ELSE [bytes EXCEPT !.res = Ok(u64_from_le_bytes(bytes.res.v))]

read_u32(data, offset) ==
    LET bytes == read_fixed(data, offset, 4)
    IN  IF ~bytes.res.ok THEN bytes
        ELSE [bytes EXCEPT !.res = Ok(u32_from_le_bytes(bytes.res.v))]

ReaderInit == rd = [data |-> <<>>, offset |-> 0, last |-> [op |-> "none"]]

ReaderDone == UNCHANGED <<now, coreVars, bloom, codec, qtb, dsig, cas, bnd, nodeRevokedAt>>

\* The writer appends a field to the buffer.
Written(buf) ==
    /\ Len(buf) <= MaxBufLen
    /\ rd' = [rd EXCEPT !.data = buf, !.last = [op |-> "write"]]
    /\ ReaderDone

writer ==
    \/ \E data \in {<<>>, <<7>>, <<7, 8>>} : Written(write_length_prefixed(data, rd.data))
    \/ \E data \in {<<1, 2>>} : Written(write_fixed(data, rd.data))
    \/ \E value \in {2, 258} : Written(write_u32(value, rd.data))
    \/ \E value \in {3} : Written(write_u64(value, rd.data))

\* The input reaches the reader cut short by one byte, and is read from the
\* start.
truncate ==
    /\ rd.data # <<>>
    /\ rd' = [data |-> SubSeq(rd.data, 1, Len(rd.data) - 1), offset |-> 0,
              last |-> [op |-> "truncate"]]
    /\ ReaderDone

Read(op, size, r) ==
    /\ rd' = [rd EXCEPT !.offset = r.offset,
                        !.last = [op |-> op, before |-> rd.offset, size |-> size, res |-> r.res]]
    /\ ReaderDone

reader ==
    \/ Read("read_length_prefixed", 4, read_length_prefixed(rd.data, rd.offset))
    \/ \E N \in {2, 4} : Read("read_fixed", N, read_fixed(rd.data, rd.offset, N))
    \/ Read("read_u32", 4, read_u32(rd.data, rd.offset))
    \/ Read("read_u64", 8, read_u64(rd.data, rd.offset))

ReaderNext == writer \/ truncate \/ reader

(***************************************************************************)
(* Policy engine (qauth policy.rs)                                         *)
(***************************************************************************)

\* A policy holds at most MaxRules rules.
MaxRules == 3

\* Strings that are parsed are sequences of one-character strings; paths and
\* patterns are sequences of their "/"-separated segments.
DigitValue ==
    [c \in {"0", "1", "2", "3", "4", "5", "6", "7", "8", "9"} |->
        CASE c = "0" -> 0 [] c = "1" -> 1 [] c = "2" -> 2 [] c = "3" -> 3 [] c = "4" -> 4
          [] c = "5" -> 5 [] c = "6" -> 6 [] c = "7" -> 7 [] c = "8" -> 8 [] c = "9" -> 9]

\* NaiveTime::parse_from_str(s, "%H:%M"): one or two digits of hours (0..23),
\* a colon, one or two digits of minutes (0..59); the minute of the day.
NaiveTime_parse_from_str(s) ==
    LET colons == {i \in 1..Len(s) : s[i] = ":"}
        p == CHOOSE i \in colons : TRUE
        h == SubSeq(s, 1, p - 1)
        m == SubSeq(s, p + 1, Len(s))
        Number(d) == IF Len(d) = 1 THEN DigitValue[d[1]]
                     ELSE 10 * DigitValue[d[1]] + DigitValue[d[2]]
    IN  IF /\ Cardinality(colons) = 1
           /\ Len(h) \in 1..2 /\ Len(m) \in 1..2
           /\ \A i \in 1..Len(s) : i # p => s[i] \in DOMAIN DigitValue
           /\ Number(h) <= 23 /\ Number(m) <= 59
        THEN Ok(60 * Number(h) + Number(m))
        ELSE Err("PolicyError")

\* {4 * 1440 + 480, 4 * 1440 + 600} are minutes since 1970-01-01T00:00Z, a Thursday.
weekday(timestamp) ==
    <<"monday", "tuesday", "wednesday", "thursday", "friday", "saturday", "sunday">>
        [(((timestamp \div 1440) + 3) % 7) + 1]

to_lowercase(d) ==
    CASE d = "Monday" -> "monday" [] d = "MONDAY" -> "monday"
      [] d = "Tuesday" -> "tuesday" [] d = "Sunday" -> "sunday"
      [] OTHER -> d

matches_time_condition(cond, timestamp) ==
    LET time == timestamp % 1440
        after_time == NaiveTime_parse_from_str(Unwrap(cond.after))
        before_time == NaiveTime_parse_from_str(Unwrap(cond.before))
    IN  IF IsSome(cond.after) /\ ~after_time.ok THEN after_time
        ELSE IF IsSome(cond.after) /\ time < after_time.v THEN Ok(FALSE)
        ELSE IF IsSome(cond.before) /\ ~before_time.ok THEN before_time
        ELSE IF IsSome(cond.before) /\ time > before_time.v THEN Ok(FALSE)
        ELSE IF /\ IsSome(cond.days)
                /\ ~\E i \in 1..Len(Unwrap(cond.days)) :
                       to_lowercase(Unwrap(cond.days)[i]) = weekday(timestamp)
        THEN Ok(FALSE)
        ELSE Ok(TRUE)

\* JSON values are <<"null">>, <<"number", n>> and <<"string", characters>>.
\* Regex::new rejects a pattern whose parentheses do not pair up; the
\* patterns of the model are otherwise literal, so that is_match is
\* containment, as str::contains is.
Regex_new(pattern) ==
    IF Cardinality({i \in 1..Len(pattern) : pattern[i] = "("})
          # Cardinality({i \in 1..Len(pattern) : pattern[i] = ")"})
    THEN Err("PolicyError")
    ELSE Ok(pattern)

str_contains(s, pattern) ==
    \E i \in 0..(Len(s) - Len(pattern)) : SubSeq(s, i + 1, i + Len(pattern)) = pattern

\* The thresholds of the model are numbers, so two strings are never compared.
compare_values(a, b) ==
    IF a[1] = "number" /\ b[1] = "number"
    THEN Some(IF a[2] < b[2] THEN -1 ELSE IF a[2] > b[2] THEN 1 ELSE 0)
    ELSE None

matches_custom_condition(key, cond, context) ==
    LET attributes == context.subject.attributes
        value == IF key \in DOMAIN attributes THEN attributes[key] ELSE <<"null">>
        o == compare_values(value, cond.arg)
        re == Regex_new(cond.arg)
    IN  CASE cond.op = "eq" -> Ok(value = cond.arg)
          [] cond.op = "ne" -> Ok(value # cond.arg)
          [] cond.op = "gt" -> Ok(IsSome(o) /\ Unwrap(o) > 0)
          [] cond.op = "gte" -> Ok(IsSome(o) /\ Unwrap(o) >= 0)
          [] cond.op = "lt" -> Ok(IsSome(o) /\ Unwrap(o) < 0)
          [] cond.op = "lte" -> Ok(IsSome(o) /\ Unwrap(o) <= 0)
          [] cond.op = "in" -> Ok(\E i \in 1..Len(cond.arg) : cond.arg[i] = value)
          [] cond.op = "not_in" -> Ok(~\E i \in 1..Len(cond.arg) : cond.arg[i] = value)
          [] cond.op = "contains" ->
                Ok(value[1] = "string" /\ str_contains(value[2], cond.arg))
          [] cond.op = "matches" ->
                IF value[1] # "string" THEN Ok(FALSE)
                ELSE IF ~re.ok THEN re
                ELSE Ok(str_contains(value[2], re.v))

\* The rules of the model carry a time condition or none, and custom
\* conditions; conditions.custom lists the entries of the HashMap in the
\* order in which this map is iterated.
\* IpAddr::from_str: an address string is written as its four numbers, and
\* parses when each is an octet.
IpAddr_from_str(s) ==
    IF \A k \in 1..4 : s[k] \in 0..255 THEN Ok(s) ELSE Err("AddrParseError")

\* A range string is [network, prefix], prefix being None when the string has
\* no '/'.  With a prefix the first octets are compared, whatever the prefix.
ip_in_range(ip, range) ==
    LET network_ip == IpAddr_from_str(range.network)
    IN  IF IsSome(range.prefix)
        THEN IF network_ip.ok THEN ip[1] = network_ip.v[1] ELSE FALSE
        ELSE IF network_ip.ok THEN ip = network_ip.v ELSE FALSE

matches_ip_condition(cond, context) ==
    LET country == context.request.geo_country
        ip == IpAddr_from_str(Unwrap(context.request.ip))
    IN  IF cond.require_vpn /\ ~context.request.is_vpn THEN Ok(FALSE)
        ELSE IF cond.geo_allow # <<>> /\ ~IsSome(country) THEN Ok(FALSE)
        ELSE IF /\ cond.geo_allow # <<>>
                /\ \A i \in 1..Len(cond.geo_allow) : cond.geo_allow[i] # Unwrap(country)
             THEN Ok(FALSE)
        ELSE IF /\ cond.geo_deny # <<>>
                /\ IsSome(country)
                /\ \E i \in 1..Len(cond.geo_deny) : cond.geo_deny[i] = Unwrap(country)
             THEN Ok(FALSE)
        ELSE IF ~IsSome(context.request.ip) THEN Ok(TRUE)
        ELSE IF ~ip.ok THEN Ok(TRUE)
        ELSE IF \E i \in 1..Len(cond.deny_ranges) : ip_in_range(ip.v, cond.deny_ranges[i])
             THEN Ok(FALSE)
        ELSE IF /\ cond.allow_ranges # <<>>
                /\ \A i \in 1..Len(cond.allow_ranges) : ~ip_in_range(ip.v, cond.allow_ranges[i])
             THEN Ok(FALSE)
        ELSE Ok(TRUE)

matches_conditions(conditions, context) ==
    LET t == matches_time_condition(Unwrap(conditions.time), context.request.timestamp)
        c == [i \in 1..Len(conditions.custom) |->
                 matches_custom_condition(conditions.custom[i].key,
                                          conditions.custom[i].cond, context)]
        stops == {i \in 1..Len(conditions.custom) : ~c[i].ok \/ ~c[i].v}
        first == CHOOSE i \in stops : \A j \in stops : i <= j
    IN  IF IsSome(conditions.time) /\ ~t.ok THEN t
        ELSE IF IsSome(conditions.time) /\ ~t.v THEN Ok(FALSE)
        ELSE IF /\ IsSome(conditions.ip)
                /\ ~matches_ip_condition(Unwrap(conditions.ip), context).v
             THEN Ok(FALSE)
        ELSE IF stops = {} THEN Ok(TRUE)
        ELSE IF ~c[first].ok THEN c[first]
        ELSE Ok(FALSE)

\* glob_match on whole segments: "*" stands for one segment, "**" for any
\* number of them, every other segment for itself.
RECURSIVE glob_match(_, _)
glob_match(pattern, path) ==
    IF pattern = <<>> THEN path = <<>>
    ELSE IF Head(pattern) = "**"
    THEN \/ glob_match(Tail(pattern), path)
         \/ path # <<>> /\ glob_match(pattern, Tail(path))
    ELSE /\ path # <<>>
         /\ Head(pattern) = "*" \/ Head(pattern) = Head(path)
         /\ glob_match(Tail(pattern), Tail(path))

matches_resources(patterns, resource) ==
    \E i \in 1..Len(patterns) :
        \/ patterns[i] = <<"*">>
        \/ patterns[i] = <<"**">>
        \/ glob_match(patterns[i], resource)

matches_actions(allowed, action) ==
    \E i \in 1..Len(allowed) : allowed[i] = "*" \/ allowed[i] = action

matches_rule(rule, context) ==
    IF ~matches_resources(rule.resources, context.resource.path) THEN Ok(FALSE)
    ELSE IF ~matches_actions(rule.actions, context.request.action) THEN Ok(FALSE)
    ELSE matches_conditions(rule.conditions, context)

\* rules.sort_by(|a, b| b.priority.cmp(&a.priority)): a stable sort, highest
\* priority first; sort_by_priority_Unsorted is an engine that leaves the rules
\* in their declared order.
sort_by_priority_Unsorted(rules) == rules

RECURSIVE sort_by_priority(_)
sort_by_priority(rules) ==
    IF rules = <<>> THEN <<>>
    ELSE LET rest == sort_by_priority(Tail(rules))
             k == Cardinality({i \in 1..Len(rest) : rest[i].priority > Head(rules).priority})
         IN  SubSeq(rest, 1, k) \o <<Head(rules)>> \o SubSeq(rest, k + 1, Len(rest))

EvaluationResult_allow(rule_id) ==
    [effect |-> "allow", matched_rule |-> rule_id, reason |-> "Allowed by policy rule"]

EvaluationResult_deny(reason, rule_id) ==
    [effect |-> "deny", matched_rule |-> rule_id, reason |-> reason]

\* EvaluationResult_default_allow is the default of an engine that allows.
EvaluationResult_default_allow ==
    [effect |-> "allow", matched_rule |-> None, reason |-> "No matching rule, default deny"]

EvaluationResult_default_deny ==
    [effect |-> "deny", matched_rule |-> None, reason |-> "No matching rule, default deny"]

\* The loop of evaluate over the sorted rules.
RECURSIVE evaluate_rules(_, _)
evaluate_rules(rules, context) ==
    IF rules = <<>> THEN Ok(EvaluationResult_default_deny)
    ELSE LET rule == Head(rules)
             m == matches_rule(rule, context)
         IN  IF ~m.ok THEN m
             ELSE IF m.v
             THEN IF rule.effect = "allow"
                  THEN Ok(EvaluationResult_allow(rule.id))
                  ELSE Ok(EvaluationResult_deny("Denied by policy rule", rule.id))
             ELSE evaluate_rules(Tail(rules), context)

PolicyEngine_evaluate(self, policy_id, context) ==
    IF ~IsSome(self.policies[policy_id]) THEN Err("PolicyError")
    ELSE LET policy == Unwrap(self.policies[policy_id])
         IN  IF /\ IsSome(policy.valid_from)
                /\ context.request.timestamp < Unwrap(policy.valid_from)
             THEN Ok(EvaluationResult_deny("Policy not yet valid", None))
             ELSE IF /\ IsSome(policy.valid_until)
                     /\ context.request.timestamp > Unwrap(policy.valid_until)
             THEN Ok(EvaluationResult_deny("Policy expired", None))
             ELSE evaluate_rules(sort_by_priority(policy.rules), context)

PolicyIds == {"urn:qauth:policy:test"}

\* The two allow rules of create_test_policy, a rule restricted to office
\* hours on two days of the week, and a rule whose time string does not parse.
RuleCatalogue ==
    << [id |-> Some("rule-1"), effect |-> "allow",
        resources |-> << <<"projects", "*">> >>, actions |-> <<"read", "list">>,
        conditions |-> [ip |-> None, time |-> None, custom |-> <<>>], priority |-> 100],
       [id |-> Some("rule-2"), effect |-> "allow",
        resources |-> << <<"projects", "123">> >>, actions |-> <<"read", "write", "delete">>,
        conditions |-> [ip |-> None, time |-> None, custom |-> <<>>], priority |-> 200],
       [id |-> Some("office-hours"), effect |-> "deny",
        resources |-> << <<"projects", "*">> >>, actions |-> <<"read">>,
        conditions |-> [ip |-> None, time |-> Some([after |-> Some(<<"0", "9", ":", "0", "0">>),
                                       before |-> Some(<<"1", "7", ":", "0", "0">>),
                                       days |-> Some(<<"Monday", "tuesday">>)]),
                        custom |-> <<>>],
        priority |-> 100],
       [id |-> Some("bad-time"), effect |-> "allow",
        resources |-> << <<"projects", "**">> >>, actions |-> <<"*">>,
        conditions |-> [ip |-> None, time |-> Some([after |-> Some(<<"2", "5", ":", "0", "0">>),
                                       before |-> None, days |-> None]),
                        custom |-> <<>>],
        priority |-> 150] >>

\* Policies without a validity window, not valid before 10:00, or not valid
\* after 08:00 of Monday 1970-01-05, with defaults.effect = deny; and policies
\* without a validity window that declare defaults.effect = allow.
Policies ==
    {[id |-> "urn:qauth:policy:test", rules |-> rules,
      valid_from |-> variant[1], valid_until |-> variant[2],
      defaults |-> [effect |-> variant[3]]] :
        rules \in UNION {[1..n -> {RuleCatalogue[i] : i \in 1..Len(RuleCatalogue)}]
                            : n \in 0..MaxRules},
        variant \in {<<None, None, "deny">>, <<Some(4 * 1440 + 600), None, "deny">>,
                     <<None, Some(4 * 1440 + 480), "deny">>, <<None, None, "allow">>}}

Contexts ==
    {[subject |-> [attributes |-> <<>>], resource |-> [path |-> path],
      request |-> [action |-> action, timestamp |-> t]] :
        path \in {<<"projects", "123">>, <<"unknown", "x">>},
        action \in {"read", "write"},
        t \in {4 * 1440 + 480, 4 * 1440 + 600}}

PolInit ==
    /\ engine = [policies |-> [id \in PolicyIds |-> None]]
    /\ elast = [op |-> "none", seq |-> 0]

\* Policies with custom conditions. The map of "eng-regex" holds two entries,
\* and a HashMap iterates them in an order fixed per map instance by its
\* random hasher state: both orders are loaded.
CustomPolicies ==
    LET CustomRule(id, effect, priority, custom) ==
            [id |-> id, effect |-> effect, resources |-> <<<<"**">>>>, actions |-> <<"*">>,
             conditions |-> [ip |-> None, time |-> None, custom |-> custom], priority |-> priority]
        dept == [key |-> "dept", cond |-> [op |-> "eq", arg |-> <<"string", <<"e", "n", "g">>>>]]
        name == [key |-> "name", cond |-> [op |-> "matches", arg |-> <<"(">>]]
        catalogue ==
            { CustomRule("eng-regex", "allow", 100, order) :
                  order \in {<<dept, name>>, <<name, dept>>} }
            \cup { CustomRule("level", "allow", 80,
                       << [key |-> "level", cond |-> [op |-> "gte", arg |-> <<"number", 2>>]] >>),
                   CustomRule("ops", "allow", 60,
                       << [key |-> "dept", cond |-> [op |-> "contains", arg |-> <<"o", "p">>]] >>),
                   CustomRule("fallback", "deny", 50, <<>>) }
    IN  {[id |-> "urn:qauth:policy:test", rules |-> rules, valid_from |-> None,
          valid_until |-> None, defaults |-> [effect |-> "deny"]] :
            rules \in UNION {[1..n -> catalogue] : n \in 0..MaxRules}}

CustomContexts ==
    {[subject |-> [attributes |-> attributes],
      resource |-> [path |-> <<"projects", "123">>],
      request |-> [action |-> "read", timestamp |-> 4 * 1440 + 600]] :
        attributes \in
            {[dept |-> <<"string", <<"o", "p", "s">>>>, name |-> <<"string", <<"b", "o", "b">>>>,
              level |-> <<"number", 3>>],
             [dept |-> <<"string", <<"e", "n", "g">>>>, name |-> <<"string", <<"b", "o", "b">>>>,
              level |-> <<"number", 1>>],
             [dept |-> <<"string", <<"q", "a">>>>, name |-> <<"number", 7>>,
              level |-> <<"number", 1>>]}}

PolicyEngine_load_policy_MergesRules(self, policy) ==
    [self EXCEPT !.policies[policy.id] =
        IF IsSome(@) THEN Some([policy EXCEPT !.rules = Unwrap(self.policies[policy.id]).rules \o @])
        ELSE Some(policy)]

\* self.policies.insert(policy.id.clone(), policy)
PolicyEngine_load_policy(self, policy) ==
    [self EXCEPT !.policies[policy.id] = Some(policy)]

\* The engine is set up, a load replacing the policy of the same id, before
\* it serves evaluations (load_policy takes &mut self, evaluate &self).
load_policy(policies) ==
    \E policy \in policies :
        /\ elast.op = "none"
        /\ engine' = PolicyEngine_load_policy(engine, policy)
        /\ UNCHANGED <<elast, now, hsVars, chanVars, proofVars, revVars, tokVars, rotVars, conVars, extVars>>

evaluate(contexts) ==
    \E policy_id \in PolicyIds, context \in contexts :
        /\ elast' = [op |-> "evaluate", policy_id |-> policy_id, context |-> context,
                     res |-> PolicyEngine_evaluate(engine, policy_id, context),
                     seq |-> 1 - elast.seq]
        /\ UNCHANGED <<engine, now, hsVars, chanVars, proofVars, revVars, tokVars, rotVars, conVars, extVars>>

PolNext == load_policy(Policies) \/ evaluate(Contexts)

(***************************************************************************)
(* Policies with IP conditions (qauth policy.rs, matches_ip_condition)     *)
(***************************************************************************)
\* The largest number of rules in a policy with IP conditions.
MaxIpRules == 2

\* An allow rule for 10.0.0.0/8, a deny rule for all but 10.1.2.0/24, an allow
\* rule for everything outside 192.168.0.0/16, an allow rule for the single
\* address 192.168.1.5 and one for 0.0.0.0/0 from a VPN in one of two
\* countries; every rule denies requests from "KP".
IpPolicies ==
    LET IpRule(id, effect, priority, allow_ranges, deny_ranges, require_vpn, geo_allow) ==
            [id |-> Some(id), effect |-> effect, resources |-> <<<<"**">>>>, actions |-> <<"*">>,
             conditions |-> [ip |-> Some([allow_ranges |-> allow_ranges,
                                          deny_ranges |-> deny_ranges,
                                          require_vpn |-> require_vpn,
                                          geo_allow |-> geo_allow, geo_deny |-> <<"KP">>]),
                             time |-> None, custom |-> <<>>],
             priority |-> priority]
        Range(network, prefix) == [network |-> network, prefix |-> prefix]
        catalogue ==
            {IpRule("office-net", "allow", 100, <<Range(<<10, 0, 0, 0>>, Some(8))>>, <<>>,
                    FALSE, <<>>),
             IpRule("lab-only", "deny", 200, <<Range(<<10, 1, 2, 0>>, Some(24))>>, <<>>,
                    FALSE, <<>>),
             IpRule("not-home", "allow", 50, <<>>, <<Range(<<192, 168, 0, 0>>, Some(16))>>,
                    FALSE, <<>>),
             IpRule("one-host", "allow", 150, <<Range(<<192, 168, 1, 5>>, None)>>, <<>>,
                    FALSE, <<>>),
             IpRule("vpn-anywhere", "allow", 10, <<Range(<<0, 0, 0, 0>>, Some(0))>>, <<>>,
                    TRUE, <<"DE", "FR">>)}
    IN  {[id |-> "urn:qauth:policy:test", rules |-> rules, valid_from |-> None,
          valid_until |-> None, defaults |-> [effect |-> "deny"]] :
            rules \in UNION {[1..n -> catalogue] : n \in 0..MaxIpRules}}

\* Requests without a client IP, with one that does not parse, and from
\* hosts inside and outside the ranges above.
IpContexts ==
    {[subject |-> [attributes |-> <<>>],
      resource |-> [path |-> <<"projects", "123">>],
      request |-> [action |-> "read", timestamp |-> 4 * 1440 + 600, ip |-> ip,
                   is_vpn |-> origin[1], geo_country |-> origin[2]]] :
        ip \in {None, Some(<<999, 1, 1, 1>>), Some(<<10, 1, 2, 3>>), Some(<<10, 9, 9, 9>>),
                Some(<<11, 0, 0, 1>>), Some(<<192, 168, 1, 5>>)},
        origin \in {<<FALSE, None>>, <<TRUE, Some("DE")>>, <<TRUE, Some("KP")>>}}

PolIpNext == load_policy(IpPolicies) \/ evaluate(IpContexts)

(***************************************************************************)
(* Policies loaded from JSON text (qauth policy.rs, load_policy_json)      *)
(*                                                                         *)
(* A JSON text is the value it denotes, <<"object", <<key, value>>, ...>>, *)
(* <<"array", elements>>, <<"string", s>>, <<"number", n>> or <<"null">>,  *)
(* or <<"invalid">> when it is not JSON.  A resource string is written as  *)
(* the sequence of its path segments, as in the rules above.               *)
(***************************************************************************)
JsonField(object, key) ==
    LET hits == {i \in 1..Len(object[2]) : object[2][i][1] = key}
    IN  IF hits = {} THEN None ELSE Some(object[2][CHOOSE i \in hits : TRUE][2])

JsonIsArrayOfStrings(field) ==
    /\ IsSome(field)
    /\ Unwrap(field)[1] = "array"
    /\ \A i \in 1..Len(Unwrap(field)[2]) : Unwrap(field)[2][i][1] = "string"

JsonIsString(field) == IsSome(field) /\ Unwrap(field)[1] = "string"

JsonIsEffect(field) == JsonIsString(field) /\ Unwrap(field)[2] \in {"allow", "deny"}

JsonIsAbsent(field) == ~IsSome(field)

\* #[derive(Deserialize)] of Rule: effect, resources and actions are required;
\* id is an Option, conditions and priority take their defaults when absent.
\* The documents loaded here carry no conditions.
Rule_deserialize(value) ==
    LET id == JsonField(value, "id")
        effect == JsonField(value, "effect")
        resources == JsonField(value, "resources")
        actions == JsonField(value, "actions")
        priority == JsonField(value, "priority")
    IN  IF /\ JsonIsAbsent(id) \/ JsonIsString(id) \/ Unwrap(id)[1] = "null"
           /\ JsonIsEffect(effect)
           /\ JsonIsArrayOfStrings(resources)
           /\ JsonIsArrayOfStrings(actions)
           /\ JsonIsAbsent(priority) \/ Unwrap(priority)[1] = "number"
        THEN Ok([id |-> IF JsonIsString(id) THEN Some(Unwrap(id)[2]) ELSE None,
                 effect |-> Unwrap(effect)[2],
                 resources |-> [i \in 1..Len(Unwrap(resources)[2]) |-> Unwrap(resources)[2][i][2]],
                 actions |-> [i \in 1..Len(Unwrap(actions)[2]) |-> Unwrap(actions)[2][i][2]],
                 conditions |-> [ip |-> None, time |-> None, custom |-> <<>>],
                 priority |-> IF JsonIsAbsent(priority) THEN 0 ELSE Unwrap(priority)[2]])
        ELSE Err("invalid rule")

\* serde_json::from_str::<Policy>: id, version, issuer and rules are
\* required; defaults and defaults.effect take their default, deny, when
\* absent.  The documents loaded here carry no validity window.
serde_json_from_str(json) ==
    IF json[1] = "invalid" THEN Err("syntax")
    ELSE IF json[1] # "object" THEN Err("invalid type")
    ELSE
    LET id == JsonField(json, "id")
        version == JsonField(json, "version")
        issuer == JsonField(json, "issuer")
        rules == JsonField(json, "rules")
        defaults == JsonField(json, "defaults")
        effect == IF IsSome(defaults) /\ Unwrap(defaults)[1] = "object"
                  THEN JsonField(Unwrap(defaults), "effect") ELSE None
    IN  IF /\ JsonIsString(id) /\ JsonIsString(version) /\ JsonIsString(issuer)
           /\ IsSome(rules)
           /\ Unwrap(rules)[1] = "array"
           /\ \A i \in 1..Len(Unwrap(rules)[2]) :
                 /\ Unwrap(rules)[2][i][1] = "object"
                 /\ Rule_deserialize(Unwrap(rules)[2][i]).ok
           /\ JsonIsAbsent(defaults) \/ Unwrap(defaults)[1] = "object"
           /\ JsonIsAbsent(effect) \/ JsonIsEffect(effect)
        THEN Ok([id |-> Unwrap(id)[2],
                 rules |-> [i \in 1..Len(Unwrap(rules)[2]) |->
                              Rule_deserialize(Unwrap(rules)[2][i]).v],
                 valid_from |-> None, valid_until |-> None,
                 defaults |-> [effect |-> IF JsonIsAbsent(effect) THEN "deny"
                                          ELSE Unwrap(effect)[2]]])
        ELSE Err("invalid policy")

\* The largest number of rules in a policy document.
MaxJsonRules == 2

\* Policy documents: well-formed ones with up to MaxJsonRules rules, with and
\* without a defaults object, and malformed ones: text that is not JSON, a
\* JSON array, a policy without rules, without version, with a number for
\* its id, and with a rule whose effect is not one of allow and deny.
JsonDocuments ==
    LET Str(s) == <<"string", s>>
        JsonRule(id, effect, resource, action, priority) ==
            <<"object", <<<<"id", Str(id)>>, <<"effect", Str(effect)>>,
                          <<"resources", <<"array", <<Str(resource)>>>>>>,
                          <<"actions", <<"array", <<Str(action)>>>>>>>>
                        \o priority>>
        catalogue ==
            {JsonRule("read-all", "allow", <<"projects", "*">>, "read", <<>>),
             JsonRule("no-write", "deny", <<"projects", "123">>, "write",
                      <<<<"priority", <<"number", 200>>>>>>),
             JsonRule("write-all", "allow", <<"projects", "**">>, "write",
                      <<<<"priority", <<"number", 100>>>>>>)}
        head == <<<<"id", Str("urn:qauth:policy:test")>>, <<"version", Str("2026-01-30")>>,
                  <<"issuer", Str("https://auth.example.com")>>>>
        Doc(rules, defaults) == <<"object", head \o <<<<"rules", <<"array", rules>>>>>> \o defaults>>
    IN  {Doc(rules, defaults) :
            rules \in UNION {[1..n -> catalogue] : n \in 0..MaxJsonRules},
            defaults \in {<<>>, <<<<"defaults", <<"object", <<<<"effect", Str("allow")>>>>>>>>>>}}
        \cup {<<"invalid">>,
              <<"array", <<>>>>,
              <<"object", head>>,
              <<"object", <<head[1], head[3], <<"rules", <<"array", <<>>>>>>>>>>,
              <<"object", <<<<"id", <<"number", 7>>>>, head[2], head[3],
                            <<"rules", <<"array", <<>>>>>>>>>>,
              Doc(<<JsonRule("permit-all", "permit", <<"**">>, "*", <<>>)>>, <<>>)}

load_policy_json(json) ==
    LET policy == serde_json_from_str(json)
    IN  /\ engine' = IF policy.ok THEN PolicyEngine_load_policy(engine, policy.v) ELSE engine
        /\ elast' = [op |-> "load_policy_json", json |-> json,
                     res |-> IF policy.ok THEN "Ok" ELSE "PolicyError", seq |-> 0]
        /\ UNCHANGED <<now, hsVars, chanVars, proofVars, revVars, tokVars, rotVars, conVars, extVars>>

PolJsonNext == \E json \in JsonDocuments : load_policy_json(json)

PolCustomNext == load_policy(CustomPolicies) \/ evaluate(CustomContexts)

(***************************************************************************)
(* Key rotation of the cascading cipher (symmetric/cascade.rs)             *)
(***************************************************************************)

\* The largest number of rotate_keys calls made on one cipher.
MaxRotations == 2

RotInit ==
    /\ qs = [h \in {"x", "y"} |->
                [cipher |-> QuantumShield_new(<<"shared">>), rotations |-> 0]]
    /\ qlast = [op |-> "new"]

rotate_keys(h) ==
    \E generated_salt \in {<<"salt", 1>>, <<"salt", 2>>} :
        /\ qs[h].rotations < MaxRotations
        /\ qs' = [qs EXCEPT ![h].cipher = QuantumShield_rotate_keys(@, generated_salt),
                            ![h].rotations = @ + 1]
        /\ UNCHANGED <<qlast, now, hsVars, chanVars, proofVars, revVars, tokVars, polVars, conVars, extVars>>

\* from encrypts a message and to decrypts it; the record keeps the
\* ciphertext and the number of rotations from had made when it encrypted.
exchange(from, to) ==
    /\ from # to
    /\ qlast' = [op |-> "exchange", from |-> from, to |-> to,
                 ciphertext |-> QuantumShield_encrypt(qs[from].cipher, "hello"),
                 rotations |-> qs[from].rotations,
                 res |-> QuantumShield_decrypt(qs[to].cipher,
                             QuantumShield_encrypt(qs[from].cipher, "hello"))]
    /\ UNCHANGED <<qs, now, hsVars, chanVars, proofVars, revVars, tokVars, polVars, conVars, extVars>>

RotNext ==
    \/ \E h \in {"x", "y"} : rotate_keys(h)
    \/ \E from, to \in {"x", "y"} : exchange(from, to)

Init == HSInit /\ ChanInit /\ ProofInit /\ RevInit /\ TokInit /\ PolInit /\ RotInit /\ ConInit
        /\ BloomInit /\ CodecInit /\ BuilderInit /\ DualSigInit
        /\ CascadeInit /\ ReaderInit /\ BindingInit /\ StaleInit

Next ==
    \/ HSNext \/ ChanNext \/ ProofNext \/ RevNext \/ TokNext \/ PolNext \/ PolCustomNext
    \/ RotNext \/ ConNext \/ StoreNext \/ BloomNext \/ PolJsonNext \/ PolIpNext
    \/ CodecNext \/ BuilderNext \/ DualSigNext
    \/ CascadeNext \/ ReaderNext \/ BindingNext \/ StaleNext

Spec == Init /\ [][Next]_vars

SpecHandshake == Init /\ [][HSNext]_vars

SpecChannel == Init /\ [][ChanNext]_vars

SpecProof == Init /\ [][ProofNext]_vars

SpecRevocation == Init /\ [][RevNext]_vars

SpecToken == Init /\ [][TokNext]_vars

SpecPolicy == Init /\ [][PolNext]_vars

SpecPolicyCustom == Init /\ [][PolCustomNext]_vars

SpecPolicyJson == Init /\ [][PolJsonNext]_vars

SpecPolicyIp == Init /\ [][PolIpNext]_vars

SpecTokenCodec == Init /\ [][CodecNext]_vars

SpecTokenBuilder == Init /\ [][BuilderNext]_vars

SpecDualSig == Init /\ [][DualSigNext]_vars

SpecCascade == Init /\ [][CascadeNext]_vars

SpecSerialize == Init /\ [][ReaderNext]_vars

SpecTokenBinding == Init /\ [][BindingNext]_vars

SpecRotation == Init /\ [][RotNext]_vars

SpecProofConcurrent == Init /\ [][ConNext]_vars

SpecBloom == Init /\ [][BloomNext]_vars

SpecRevocationStore == Init /\ [][StoreNext]_vars

SpecRevocationStale == Init /\ [][StaleNext]_vars

(***************************************************************************)
(* Handshake properties                                                    *)
(***************************************************************************)

\* What each party reads when its peer's session encrypts a message.
CrossDecrypt(from, to, plaintext) ==
    QuantumShield_decrypt(Unwrap(sess[to]).cipher,
                          QuantumShield_encrypt(Unwrap(sess[from]).cipher, plaintext))

\* C1: when an honest client and an honest server are driven in the order
\* client_hello, server_hello, process_server_hello, process_client_finished,
\* process_server_finished, complete_server, each fed the unmodified message
\* the other produced, every step succeeds, the client holds a session after
\* the fifth step, both end in Complete, and the two sessions carry the same
\* session_id and ciphers keyed from the same shared secret: each decrypts
\* what the other encrypts.
C1_HonestRunEstablishesSession ==
    /\ cleanSteps >= 1 => hlast.res = "Ok"
    /\ cleanSteps >= 5 => hs["client"].state = "Complete" /\ IsSome(sess["client"])
    /\ cleanSteps = 6 =>
        /\ hs["server"].state = "Complete"
        /\ IsSome(sess["server"])
        /\ Unwrap(sess["client"]).session_id = Unwrap(sess["server"]).session_id
        /\ hs["client"].shared_secret = hs["server"].shared_secret
        /\ Unwrap(sess["client"]).cipher = Unwrap(sess["server"]).cipher
        /\ CrossDecrypt("client", "server", "ping") = Ok("ping")
        /\ CrossDecrypt("server", "client", "pong") = Ok("pong")

\* The honest run has been driven to its end and both sessions exist.
C1_Witness ==
    /\ cleanSteps = 6
    /\ hlast.op = "complete_server"
    /\ IsSome(sess["client"]) /\ IsSome(sess["server"])

\* C2: a client that processes, in state ClientHelloSent, a ServerHello whose
\* signature does not verify (signature altered, or public key, KEM
\* ciphertext or nonce replaced with the signature kept) gets handshake-failed,
\* is in state Failed from then on and never yields a session.
C2_BadServerHelloFailsClient ==
    /\ ( /\ hlast.op = "process_server_hello"
         /\ hs[hlast.obj].role = "Client"
         /\ hlast.pre = "ClientHelloSent"
         /\ hlast.kind \in TamperKinds )
       => (hlast.res = "HandshakeFailed" /\ hs[hlast.obj].state = "Failed")
    /\ \A o \in sigRejected : hs[o].state = "Failed" /\ sess[o] = None

\* A client rejected a tampered ServerHello and has since been asked to go on
\* with the handshake.
C2_Witness ==
    /\ "client" \in sigRejected
    /\ hlast.obj = "client"
    /\ hlast.op = "process_server_finished"
    /\ hlast.res = "HandshakeFailed"

\* The role and the state each operation requires.
RequiredRole(op) ==
    IF op \in {"client_hello", "process_server_hello", "process_server_finished"}
    THEN "Client" ELSE "Server"

RequiredState(op) ==
    CASE op = "client_hello" -> "Initial"
      [] op = "server_hello" -> "Initial"
      [] op = "process_server_hello" -> "ClientHelloSent"
      [] op = "process_client_finished" -> "ServerHelloReceived"
      [] op = "process_server_finished" -> "ClientFinishedSent"
      [] op = "complete_server" -> "Complete"

OutOfOrder(call) ==
    /\ call.op # "new"
    /\ \/ hs[call.obj].role # RequiredRole(call.op)
       \/ call.pre # RequiredState(call.op)

\* C3: a call made out of order or on the wrong role returns handshake-failed
\* and leaves the object in state Failed.
C3_OutOfOrderCallFailsObject ==
    OutOfOrder(hlast) =>
        (hlast.res = "HandshakeFailed" /\ hs[hlast.obj].state = "Failed")

\* Both halves of the signature are the signer's, over the message.
SignedBy(public_key, message, signature) ==
    signature = QShieldSign_sign(SignSecretKey(public_key.ml_dsa), message)
        /\ public_key.slh_dsa = public_key.ml_dsa

\* The step is a call of op on o, made in the state and role op requires.
InOrderCall(op, o) ==
    /\ hlast'.op = op
    /\ hlast'.obj = o
    /\ hs[o].role = RequiredRole(op)
    /\ hs[o].state = RequiredState(op)

\* C13: when the signature of the ClientFinished a server processes is not
\* the signature, over the server's finished hash, of the key the server took
\* from the ClientHello, or the signature of the ServerHello a client
\* processes is not that of the key the hello names, the call returns
\* handshake-failed and the object is in state Failed; a Failed object
\* refuses the step when it is tried again, and complete_server refuses too:
\* the object has no session and gets none. (Encapsulation and decapsulation
\* return no error: a KEM step cannot fail but through the signature over it.)
C13_FailedSignatureFailsHandshake ==
    [][\A o \in Objs :
        /\ ( /\ InOrderCall("process_client_finished", o)
             /\ ~\E in \in ClientFinishedInputs(o) :
                    /\ in.kind = hlast'.kind
                    /\ SignedBy(Unwrap(hs[o].peer_sign_public_key),
                                compute_finished_hash(hs[o]), in.msg.signature) )
           => (hlast'.res = "HandshakeFailed" /\ hs'[o].state = "Failed" /\ out' = out)
        /\ ( /\ InOrderCall("process_server_hello", o)
             /\ ~\E in \in ServerHelloInputs :
                    /\ in.kind = hlast'.kind
                    /\ SignedBy(in.msg.sign_public_key,
                                ServerHello_transcript_hash(in.msg, hs[o].transcript),
                                in.msg.signature) )
           => (hlast'.res = "HandshakeFailed" /\ hs'[o].state = "Failed" /\ out' = out)
        /\ ( /\ hs[o].state = "Failed"
             /\ hlast'.obj = o
             /\ hlast'.op \in {"process_client_finished", "process_server_hello",
                               "complete_server"} )
           => /\ hlast'.res = "HandshakeFailed"
              /\ hs'[o].state = "Failed"
              /\ sess[o] = None /\ sess'[o] = None]_vars

\* The server rejected a ClientFinished and was then asked for its session.
C13_Witness ==
    /\ hs["server"].state = "Failed"
    /\ hlast.obj = "server"
    /\ hlast.op = "complete_server"
    /\ hlast.pre = "Failed"
    /\ hlast.res = "HandshakeFailed"
    /\ sess["server"] = None

\* C14: when the ServerFinished a client processes in state ClientFinishedSent
\* does not decrypt under the client's keys to HANDSHAKE_COMPLETE, the call
\* fails, the client is in state Failed and has no session, and a Failed
\* client gets none from a later call.
C14_BadServerFinishedFailsClient ==
    [][\A o \in Objs :
        /\ ( /\ InOrderCall("process_server_finished", o)
             /\ ~\E in \in ServerFinishedInputs(o) :
                    /\ in.kind = hlast'.kind
                    /\ QuantumShield_decrypt(QuantumShield_new(Unwrap(hs[o].shared_secret)),
                                             in.msg.encrypted_confirm)
                         = Ok("HANDSHAKE_COMPLETE") )
           => (hlast'.res # "Ok" /\ hs'[o].state = "Failed" /\ sess'[o] = None)
        /\ hs[o].state = "Failed" => sess'[o] = None]_vars

\* C15: every operation called on an object in state Failed returns
\* handshake-failed, puts no message on the wire, yields no session and
\* leaves the object as it is, in state Failed.
C15_FailedIsAbsorbing ==
    [][\A o \in Objs :
        (hs[o].state = "Failed" /\ hlast'.obj = o)
            => /\ hlast'.op \in {"client_hello", "server_hello", "process_server_hello",
                                 "process_client_finished", "process_server_finished",
                                 "complete_server"}
               /\ hlast'.pre = "Failed"
               /\ hlast'.res = "HandshakeFailed"
               /\ hs'[o] = hs[o]
               /\ out' = out
               /\ sess' = sess]_vars

\* A client that failed was asked to start over.
C15_Witness ==
    /\ hs["client"].state = "Failed"
    /\ hlast.obj = "client"
    /\ hlast.op = "client_hello"
    /\ hlast.pre = "Failed"
    /\ hlast.res = "HandshakeFailed"
    /\ out.cf = None /\ sess["client"] = None

(***************************************************************************)
(* Channel properties                                                      *)
(***************************************************************************)

\* C4: at the receiving end the counters of the frames receive accepts are
\* strictly increasing in the order of acceptance, so a frame whose counter
\* was accepted once is never accepted again; every acceptance moves
\* recv_counter past the accepted counter.
C4_AcceptedCountersIncrease ==
    /\ \A e \in Ends : \A i, j \in 1..Len(accepted[e]) :
            i < j => accepted[e][i] < accepted[e][j]
    /\ \A e \in Ends : \A i \in 1..Len(accepted[e]) :
            accepted[e][i] < chan[e].recv_counter
    /\ (clast.op = "receive" /\ clast.res = "Ok") =>
            /\ clast.counter >= clast.pre
            /\ chan[clast.end].recv_counter = clast.counter + 1

\* A frame whose counter had been accepted was delivered again and refused,
\* after frames had been accepted out of the sender's order.
C4_Witness ==
    /\ clast.op = "receive"
    /\ clast.res = "AuthenticationFailed"
    /\ Len(accepted[clast.end]) >= 2
    /\ \E i \in 1..Len(accepted[clast.end]) : accepted[clast.end][i] = clast.counter

\* C16: receive accepts a frame of its session that it opens exactly when
\* recv_counter <= counter <= recv_counter + 1024, and then sets recv_counter
\* to counter + 1; otherwise (counter < recv_counter, or counter at least
\* recv_counter + 1025) it rejects the frame and keeps recv_counter.
C16_AcceptedExactlyInWindow ==
    (clast.op = "receive" /\ clast.counter >= 0) =>
        /\ clast.res = "Ok" <=>
              (clast.pre <= clast.counter /\ clast.counter <= clast.pre + RecvWindow)
        /\ clast.res = "Ok" => chan[clast.end].recv_counter = clast.counter + 1
        /\ clast.res # "Ok" =>
              /\ clast.res = "AuthenticationFailed"
              /\ chan[clast.end].recv_counter = clast.pre

\* After earlier frames, the frame at the far edge of the window was accepted.
C16_Witness ==
    /\ clast.op = "receive"
    /\ clast.res = "Ok"
    /\ clast.pre > 0
    /\ clast.counter = clast.pre + RecvWindow

\* The content of the i-th frame emitted, as the sender's cipher opens it.
Emitted(i) == QShieldMessage_open(wire[i], chan["a"].cipher)

\* The receiver has accepted the first k frames emitted, in the order of
\* emission, and no other frame.
ReceivedInOrder(k) ==
    /\ k <= Len(wire)
    /\ accepted["b"] = [i \in 1..k |-> i - 1]

\* C17: the i-th frame a sender emits, by send, send_with_timestamp or
\* send_control, carries counter i-1, and send_counter is the number of frames
\* emitted; a receiver that has accepted the first k frames in the order of
\* emission has recv_counter = k and accepts the next one, so that after all
\* n frames recv_counter = send_counter = n.
C17_InOrderFramesAccepted ==
    /\ Len(wire) = chan["a"].send_counter
    /\ \A i \in 1..Len(wire) : Emitted(i).ok /\ Emitted(i).v.counter = i - 1
    /\ \A k \in 0..Len(wire) :
          ReceivedInOrder(k) =>
              /\ chan["b"].recv_counter = k
              /\ k < Len(wire) =>
                    LET call == MessageChannel_receive(chan["b"], wire[k + 1])
                    IN  call.res = "Ok" /\ call.self.recv_counter = k + 1
              /\ k = Len(wire) => chan["b"].recv_counter = chan["a"].send_counter

\* Every frame the sender may emit was emitted, a timestamped one and a
\* control frame among them, and the receiver accepted them in order.
C17_Witness ==
    /\ chan["a"].send_counter = MaxSend
    /\ ReceivedInOrder(MaxSend)
    /\ clast.op = "receive" /\ clast.res = "Ok"
    /\ \E i \in 1..Len(wire) : IsSome(Emitted(i).v.timestamp)
    /\ \E i \in 1..Len(wire) : Emitted(i).v.message_type # "Data"

\* C18: a channel emits no frame after a close frame, and accepts no frame
\* after it has accepted a close frame.
C18_CloseEndsSession ==
    /\ \A i \in 1..Len(wire) :
          (Emitted(i).ok /\ Emitted(i).v.message_type = "Close") => i = Len(wire)
    /\ \A i \in 1..Len(accepted["b"]) :
          LET c == accepted["b"][i]
          IN  (c < Len(wire) /\ Emitted(c + 1).ok /\ Emitted(c + 1).v.message_type = "Close")
                  => i = Len(accepted["b"])

\* C19: once the sender has emitted a key_update frame its keys are no longer
\* those the session began with; once the receiver has accepted the frame it
\* holds the sender's new keys, and accepts no frame sealed under the keys
\* the session began with.
C19_KeyUpdateRotatesKeys ==
    LET initial == QuantumShield_new(combine_secrets(<<"dh", "kc", <<"r", 1>>>>,
                                                     <<"mlkem", "kc", <<"r", 1>>>>))
        IsKeyUpdate(i) == Emitted(i).ok /\ Emitted(i).v.message_type = "KeyUpdate"
        updated == {i \in 1..Len(accepted["b"]) :
                       accepted["b"][i] < Len(wire) /\ IsKeyUpdate(accepted["b"][i] + 1)}
    IN  /\ (\E i \in 1..Len(wire) : IsKeyUpdate(i)) => chan["a"].cipher # initial
        /\ updated # {} =>
              /\ chan["b"].cipher = chan["a"].cipher
              /\ \A j \in 1..Len(accepted["b"]) :
                    (/\ \E i \in updated : i < j
                     /\ accepted["b"][j] < Len(wire))
                        => ~QShieldMessage_open(wire[accepted["b"][j] + 1], initial).ok

(***************************************************************************)
(* Proof validator properties                                              *)
(***************************************************************************)

\* C5: one validator never accepts the same nonce twice: once validate has
\* returned Ok for a proof, every later validate of a proof carrying the same
\* nonce is rejected, also right after the nonce cache window was reset.
C5_NonceAcceptedOnce ==
    \A n \in ProofNonces : okCount[n] <= 1

\* C22: validate returns Ok only for a proof whose timestamp is at most 60 s
\* from the current time, before or after it, whose nonce the cache did not
\* hold when the call was made, whose method, uri, body hash and token hash
\* are those of the expected request, and whose signature is the client
\* key's; every other call returns InvalidProof.
C22_OkOnlyIfEveryCheckPasses ==
    plast.op = "validate" =>
        LET proof == Unwrap(plast.proof)
        IN  /\ plast.res \in {"Ok", "InvalidProof"}
            /\ plast.res = "Ok" =>
                  /\ plast.age <= PROOF_MAX_AGE_SECONDS
                  /\ plast.age >= -PROOF_MAX_AGE_SECONDS
                  /\ ~plast.cached
                  /\ proof.method = plast.expected.method
                  /\ proof.uri = plast.expected.uri
                  /\ proof.body_hash = BodyHash(plast.expected.body)
                  /\ proof.token_hash = sha256(plast.expected.token_bytes)
                  /\ Ed25519_verify(pv.client_public_key,
                         create_signing_message(proof.timestamp, proof.nonce, proof.method,
                                                proof.uri, proof.body_hash, proof.token_hash),
                         proof.signature)

\* Two calls were concurrent when one was entered while the other was running.
Concurrent(t, u) == u \in thr[t].with \/ t \in thr[u].with

\* Only the holder of the mutex is between lock and unlock.
MutexGuardsNonceCache ==
    \A t \in Threads : thr[t].pc \in {"check_and_mark", "unlock"} <=> mutex = t

\* C23: of two concurrent validate calls on one validator with the same
\* proof, at most one returns Ok.
C23_ConcurrentCallsAcceptOnce ==
    \A t, u \in Threads :
        (/\ t # u
         /\ Concurrent(t, u)
         /\ thr[t].proof = thr[u].proof
         /\ thr[t].res = "Ok") => thr[u].res # "Ok"

(***************************************************************************)
(* Revocation properties                                                   *)
(***************************************************************************)

\* C6: once revoke(rid) through the checker has succeeded, every later
\* is_revoked(rid) on that checker answers true as long as the store still
\* holds the entry, whatever the cache TTL, the bloom filter refreshes and the
\* other lookups did in between; and before any revoke of rid, is_revoked(rid)
\* answers false.
C6_RevokedStaysRevoked ==
    rlast.op = "is_revoked" =>
        /\ (revokedVia[rlast.rid] = "checker" /\ IsSome(store.revocations[rlast.rid]))
              => rlast.res = "true"
        /\ revokedVia[rlast.rid] = "never" => rlast.res = "false"

\* C24: once revoke_subject(s) has been performed, the last time at time t,
\* is_token_revoked(rid, s, iat) answers true for every rid and every iat < t;
\* for iat >= t, and for a subject never revoked, it answers what
\* is_revoked(rid) answers; and no step makes a token that subject revocation
\* covered uncovered.  The store keeps the time of the last revoke_subject(s).
C24_SubjectRevocationCoversOlderTokens ==
    [][/\ (rlast'.op = "is_token_revoked" /\ now' = now) =>
            LET revoked_at == store.subject_revocations[rlast'.subject_id]
                by_rid == RevocationChecker_is_revoked(checker, store, rlast'.rid).res
            IN  IF IsSome(revoked_at) /\ rlast'.token_iat < Unwrap(revoked_at)
                THEN rlast'.res = "true"
                ELSE rlast'.res = BoolStr(by_rid)
       /\ \A s \in AllSubjects, iat \in {0, RevTick} :
            RevocationCache_is_subject_revoked(checker.cache, s, iat)
               => RevocationCache_is_subject_revoked(checker'.cache, s, iat)]_vars

\* A token of alice issued before her revocation is reported revoked although
\* its rid was never revoked.
C24_Witness ==
    /\ rlast.op = "is_token_revoked"
    /\ rlast.subject_id = "alice"
    /\ IsSome(store.subject_revocations["alice"])
    /\ rlast.token_iat < Unwrap(store.subject_revocations["alice"])
    /\ revokedVia[rlast.rid] = "never"
    /\ rlast.res = "true"

\* C25: every id added to the bloom filter is reported by might_contain, by
\* the filter itself, by the copy rebuilt from its bytes, and by every filter
\* that went through bytes on the way.
C25_BloomHasNoFalseNegatives ==
    LET restored == RevocationBloomFilter_from_bytes(RevocationBloomFilter_to_bytes(bloom.filter))
    IN  /\ restored.ok
        /\ \A r \in bloom.added :
              /\ RevocationBloomFilter_might_contain(bloom.filter, r)
              /\ RevocationBloomFilter_might_contain(restored.v, r)

C25_Witness == bloom.rebuilt /\ Cardinality(bloom.added) >= 3 /\ bloom.added # BloomRids

\* C26: an entry of the store whose token_expiry is later than the clock stays
\* in the store through every step (a later revoke of the rid puts its own
\* entry in its place), so the store's is_revoked(rid) stays true; and a
\* cleanup removes the entries with token_expiry <= now and no other.
C26_EntriesKeptUntilExpiry ==
    [][/\ \A r \in Rids :
            (IsSome(store.revocations[r]) /\ Unwrap(store.revocations[r]).token_expiry > now)
               => /\ IsSome(store'.revocations[r])
                  /\ InMemoryRevocationStore_is_revoked(store', r).revoked
       /\ (rlast'.op = "cleanup" /\ now' = now) =>
            \A r \in Rids :
               store'.revocations[r] =
                  IF IsSome(store.revocations[r])
                        /\ Unwrap(store.revocations[r]).token_expiry <= now
                  THEN None ELSE store.revocations[r]]_vars

\* After a cleanup one entry, not yet expired, is still in the store and
\* another rid, revoked earlier, is gone.
C26_Witness ==
    /\ rlast.op = "cleanup"
    /\ \E r \in Rids : /\ IsSome(store.revocations[r])
                       /\ Unwrap(store.revocations[r]).token_expiry > now
    /\ \E r \in Rids : revokedVia[r] # "never" /\ ~IsSome(store.revocations[r])

(***************************************************************************)
(* Token validation properties                                             *)
(***************************************************************************)

\* The seven checks of the token validator in their stated order, each with
\* whether the token passes it at time t and the code of its failure.
TokenChecks(token, t) ==
    LET v == Validator
        p == PayloadOf(token)
        message == <<QTokenHeader_to_bytes(token.header), token.encrypted_payload>>
    IN  << <<token.header.key_id = IssuerVerifyingKeys_key_id(v.verifying_keys), "E008">>,
           <<token.signature =
                IssuerSigningKeys_sign(IssuerSigningKeys_generate("issuer"), message), "E003">>,
           <<token.encrypted_payload =
                EncryptionKey_encrypt(v.encryption_key, QTokenPayload_to_cbor(p),
                                      QTokenHeader_to_bytes(token.header)), "E004">>,
           <<t <= p.exp + v.clock_skew_seconds, "E005">>,
           <<t >= p.nbf - v.clock_skew_seconds, "E006">>,
           <<p.iss = v.expected_issuer, "E008">>,
           <<\E i \in 1..Len(p.aud) : p.aud[i] = v.expected_audience, "E007">> >>

FirstFailure(checks) ==
    IF \A i \in 1..Len(checks) : checks[i][1]
    THEN "Ok"
    ELSE checks[CHOOSE i \in 1..Len(checks) :
                    ~checks[i][1] /\ \A j \in 1..(i - 1) : checks[j][1]][2]

\* C7: validate returns the error of the first failing check in the order
\* key id, dual signature, payload decryption, expiry, not-before, issuer,
\* audience, and Ok only when every check passes; so a bad signature under
\* the right key id gives E003 whatever the payload, an expired token for
\* another audience gives E005, and a token failing only the audience check
\* gives E007.
C7_FirstFailingCheckDecides ==
    tlast.op = "validate" =>
        LET checks == TokenChecks(tlast.token, tlast.at)
        IN  /\ tlast.res = FirstFailure(checks)
            /\ (checks[1][1] /\ ~checks[2][1]) => tlast.res = "E003"
            /\ (checks[1][1] /\ checks[2][1] /\ checks[3][1] /\ ~checks[4][1] /\ ~checks[7][1])
                  => tlast.res = "E005"
            /\ (\A i \in 1..6 : checks[i][1]) /\ ~checks[7][1] => tlast.res = "E007"
            /\ tlast.res = "Ok" <=> \A i \in 1..7 : checks[i][1]

\* An expired token addressed to another audience has been validated and
\* answered with E005.
C7_Witness ==
    /\ tlast.op = "validate"
    /\ tlast.kind = "honest"
    /\ tlast.at > PayloadOf(tlast.token).exp + Validator.clock_skew_seconds
    /\ PayloadOf(tlast.token).aud = <<"https://wrong-api.example.com">>
    /\ tlast.res = "E005"

\* C8: validation of a token whose revocation id has been revoked, or whose
\* subject was revoked after the token's iat, fails with E010 (the token
\* passing every earlier check).
C8_RevokedTokenFailsE010 ==
    (/\ tlast.op = "validate"
     /\ tlast.revoked
     /\ \A i \in 1..7 : TokenChecks(tlast.token, tlast.at)[i][1])
        => tlast.res = "E010"

(***************************************************************************)
(* Policy evaluation properties                                            *)
(***************************************************************************)

\* The rules of a policy that match a context, and those whose conditions
\* cannot be evaluated for it.
Matching(policy, context) ==
    {i \in 1..Len(policy.rules) :
        LET m == matches_rule(policy.rules[i], context) IN m.ok /\ m.v}

Failing(policy, context) ==
    {i \in 1..Len(policy.rules) : ~matches_rule(policy.rules[i], context).ok}

\* Rule j comes before rule i: it has the higher priority, or the same
\* priority and the earlier place in the rules list.
Precedes(policy, j, i) ==
    \/ policy.rules[j].priority > policy.rules[i].priority
    \/ policy.rules[j].priority = policy.rules[i].priority /\ j < i

Best(policy, context) ==
    CHOOSE i \in Matching(policy, context) :
        \A j \in Matching(policy, context) \ {i} : Precedes(policy, i, j)

InWindow(policy, context) ==
    /\ IsSome(policy.valid_from) => context.request.timestamp >= Unwrap(policy.valid_from)
    /\ IsSome(policy.valid_until) => context.request.timestamp <= Unwrap(policy.valid_until)

Decides(rule, res) ==
    res.ok /\ res.v.effect = rule.effect /\ res.v.matched_rule = rule.id

DefaultDeny(res) ==
    res.ok /\ res.v.effect = "deny" /\ res.v.matched_rule = None

\* A step that evaluates an installed policy.
Evaluated ==
    /\ elast'.op = "evaluate"
    /\ elast'.seq # elast.seq
    /\ IsSome(engine.policies[elast'.policy_id])

\* C9 as stated: when several rules of the policy match the context, evaluate
\* returns the effect and id of the matching rule with the highest priority,
\* the first declared among those of equal priority.
C9_HighestPriorityMatchDecides ==
    [][Evaluated =>
        LET policy == Unwrap(engine.policies[elast'.policy_id])
            context == elast'.context
        IN  Cardinality(Matching(policy, context)) >= 2
                => Decides(policy.rules[Best(policy, context)], elast'.res)]_vars

\* C9 amended: when several rules match, the request timestamp lies within
\* the policy's validity window, and no rule that comes before the matching
\* ones fails with a policy-error, evaluate returns the effect and id of the
\* matching rule with the highest priority, the first declared among equals.
C9_HighestPriorityMatchDecidesInWindow ==
    [][Evaluated =>
        LET policy == Unwrap(engine.policies[elast'.policy_id])
            context == elast'.context
        IN  (/\ Cardinality(Matching(policy, context)) >= 2
             /\ InWindow(policy, context)
             /\ \A j \in Failing(policy, context) :
                    ~Precedes(policy, j, Best(policy, context)))
                => Decides(policy.rules[Best(policy, context)], elast'.res)]_vars

\* Two matching rules of equal priority, inside the validity window: the
\* one declared first has decided.
C9_Witness ==
    /\ elast.op = "evaluate"
    /\ IsSome(engine.policies[elast.policy_id])
    /\ LET policy == Unwrap(engine.policies[elast.policy_id])
           context == elast.context
       IN  /\ Matching(policy, context) = {1, 2}
           /\ policy.rules[1].priority = policy.rules[2].priority
           /\ policy.rules[1] # policy.rules[2]
           /\ InWindow(policy, context)
           /\ Decides(policy.rules[1], elast.res)
           /\ ~Decides(policy.rules[2], elast.res)

\* C10 as stated: for an installed policy and a context none of its rules
\* matches, evaluate returns effect = deny with matched_rule = none.
C10_NoMatchDenies ==
    [][Evaluated =>
        LET policy == Unwrap(engine.policies[elast'.policy_id])
            context == elast'.context
        IN  Matching(policy, context) = {} => DefaultDeny(elast'.res)]_vars

\* C10 amended: for an installed policy and a context none of its rules
\* matches, evaluate never allows: it returns effect = deny with
\* matched_rule = none, except that inside the validity window a rule whose
\* conditions cannot be evaluated makes it return the policy-error.
C10_NoMatchDeniesOrFails ==
    [][Evaluated =>
        LET policy == Unwrap(engine.policies[elast'.policy_id])
            context == elast'.context
        IN  Matching(policy, context) = {} =>
                IF InWindow(policy, context) /\ Failing(policy, context) # {}
                THEN elast'.res = Err("PolicyError")
                ELSE DefaultDeny(elast'.res)]_vars

\* A policy with rules, none matching the context and none failing, has
\* been evaluated inside its validity window and has denied by default.
C10_Witness ==
    /\ elast.op = "evaluate"
    /\ IsSome(engine.policies[elast.policy_id])
    /\ LET policy == Unwrap(engine.policies[elast.policy_id])
           context == elast.context
       IN  /\ Len(policy.rules) >= 1
           /\ Matching(policy, context) = {}
           /\ Failing(policy, context) = {}
           /\ InWindow(policy, context)
           /\ elast.res = Ok(EvaluationResult_default_deny)

\* C11: when no rule of the policy matches the context (the policy in its
\* validity window, every rule's conditions evaluable), evaluate returns the
\* policy's own defaults.effect with matched_rule = none.
C11_NoMatchReturnsPolicyDefault ==
    [][Evaluated =>
        LET policy == Unwrap(engine.policies[elast'.policy_id])
            context == elast'.context
        IN  (/\ Matching(policy, context) = {}
             /\ Failing(policy, context) = {}
             /\ InWindow(policy, context))
                => /\ elast'.res.ok
                   /\ elast'.res.v.effect = policy.defaults.effect
                   /\ elast'.res.v.matched_rule = None]_vars

\* The policies that differ from the given one only in the order in which the
\* custom-condition maps of its rules are iterated (the maps of the model hold
\* at most two entries).
IterationOrders(policy) ==
    LET Reverse(q) == [i \in 1..Len(q) |-> q[Len(q) + 1 - i]]
    IN  {[policy EXCEPT !.rules =
             [i \in 1..Len(policy.rules) |->
                 IF i \in S
                 THEN [policy.rules[i] EXCEPT !.conditions.custom = Reverse(@)]
                 ELSE policy.rules[i]]] :
            S \in SUBSET (1..Len(policy.rules))}

\* C12: evaluate is a function of the installed policy and the context: the
\* outcome of an evaluation (effect and matched_rule, or the policy-error) is
\* the one every iteration order of the rules' custom-condition maps gives,
\* and an evaluation leaves the engine's policy map as it was.
C12_EvaluateIndependentOfMapOrder ==
    [][Evaluated =>
        LET policy == Unwrap(engine.policies[elast'.policy_id])
        IN  /\ engine' = engine
            /\ \A q \in IterationOrders(policy) :
                  PolicyEngine_evaluate([engine EXCEPT !.policies[policy.id] = Some(q)],
                                        elast'.policy_id, elast'.context) = elast'.res]_vars

\* C27: load_policy_json with a text that is not a policy returns
\* policy-error and leaves the engine as it was, a policy loaded earlier under
\* the same id included; with a policy it returns Ok and the engine then holds
\* under the policy's id that policy alone, with the rules of the text and no
\* rule of the policy held before.
C27_LoadReplacesOrLeavesUnchanged ==
    [][elast'.op = "load_policy_json" =>
        LET policy == serde_json_from_str(elast'.json)
            rules == JsonField(elast'.json, "rules")
        IN  IF policy.ok
            THEN /\ elast'.res = "Ok"
                 /\ engine'.policies[policy.v.id] = Some(policy.v)
                 /\ Len(Unwrap(engine'.policies[policy.v.id]).rules) = Len(Unwrap(rules)[2])
                 /\ \A id \in PolicyIds \ {policy.v.id} :
                       engine'.policies[id] = engine.policies[id]
            ELSE /\ elast'.res = "PolicyError"
                 /\ engine' = engine]_vars

\* A malformed text was refused while the engine held a policy with rules.
C27_Witness ==
    /\ elast.op = "load_policy_json"
    /\ elast.res = "PolicyError"
    /\ \E id \in PolicyIds : /\ IsSome(engine.policies[id])
                             /\ Len(Unwrap(engine.policies[id]).rules) = MaxJsonRules

\* The rules of the policy evaluated last.
EvaluatedRules == Unwrap(engine.policies[elast.policy_id]).rules

HasRanges(rule) ==
    /\ IsSome(rule.conditions.ip)
    /\ \/ Unwrap(rule.conditions.ip).allow_ranges # <<>>
       \/ Unwrap(rule.conditions.ip).deny_ranges # <<>>

\* C28: when the request carries no client IP, the rule that decides it is
\* never one whose ip condition lists allow_ranges or deny_ranges.
C28_NoIpNeverMatchesRangeRule ==
    (/\ elast.op = "evaluate"
     /\ elast.res.ok
     /\ ~IsSome(elast.context.request.ip)
     /\ IsSome(elast.res.v.matched_rule))
        => \A i \in 1..Len(EvaluatedRules) :
              EvaluatedRules[i].id = elast.res.v.matched_rule => ~HasRanges(EvaluatedRules[i])

\* The first n bits of the two addresses are equal, octet by octet.
FirstBitsEqual(ip, network, n) ==
    \A k \in 1..4 :
        LET covered == IF n <= 8 * (k - 1) THEN 0
                       ELSE IF n >= 8 * k THEN 8 ELSE n - (8 * (k - 1))
            low == 2 ^ (8 - covered)
        IN  ip[k] \div low = network[k] \div low

\* C29: for every range a.b.c.d/n of the policy evaluated and the client IP
\* of the request, ip_in_range answers whether the first n bits of the two
\* addresses are equal.
C29_RangesAreFullCidr ==
    (/\ elast.op = "evaluate"
     /\ elast.res.ok
     /\ IsSome(elast.context.request.ip)
     /\ IpAddr_from_str(Unwrap(elast.context.request.ip)).ok)
        => \A i \in 1..Len(EvaluatedRules) :
              LET cond == Unwrap(EvaluatedRules[i].conditions.ip)
                  ranges == cond.allow_ranges \o cond.deny_ranges
              IN  \A j \in 1..Len(ranges) :
                     IsSome(ranges[j].prefix) =>
                        (ip_in_range(Unwrap(elast.context.request.ip), ranges[j])
                            <=> FirstBitsEqual(Unwrap(elast.context.request.ip),
                                               ranges[j].network, Unwrap(ranges[j].prefix)))

\* C30: decode(encode(t)) of a token t that create built succeeds, gives a
\* token that encodes to the bytes of t, whose signatures verify under the
\* issuer's keys and whose payload decrypts to the payload t was created from.
C30_EncodeDecodeRoundTrip ==
    codec.op = "decode" =>
        /\ codec.decoded.ok
        /\ QToken_to_bytes(codec.decoded.v) = QToken_to_bytes(codec.token)
        /\ codec.decoded.v = codec.token
        /\ QToken_verify_signatures(codec.decoded.v, IssuerSigningKeys_generate("issuer")).ok
        /\ QToken_decrypt_payload(codec.decoded.v, "encryption_key") = Ok(codec.payload)

\* C31: the payload of every token the builder builds, whatever validity the
\* builder was given, has exp >= nbf and nbf >= iat - clock_skew_seconds.
C31_BuiltPayloadIsOrdered ==
    IsSome(qtb.token) =>
        LET payload == PayloadOf(Unwrap(qtb.token))
        IN  /\ payload.exp >= payload.nbf
            /\ payload.nbf >= payload.iat - Validator.clock_skew_seconds

\* The message a QShieldSign verifier hashes for the signature it was given.
DsigHash ==
    IF IsSome(dsig.timestamp)
    THEN hash_message_with_timestamp(dsig.message, Unwrap(dsig.timestamp))
    ELSE hash_message(dsig.message)

\* Whether the first and the second half of the last signature verify alone.
FirstHalfVerifies ==
    IF dsig.scheme = "issuer"
    THEN Ed25519_verify(dsig.keys.ed25519, dsig.message, dsig.signature.ed25519)
    ELSE MlDsa_verify(dsig.keys.ml_dsa, DsigHash, dsig.signature.ml_dsa)

SecondHalfVerifies ==
    IF dsig.scheme = "issuer"
    THEN dsig.signature.mldsa.key = dsig.keys.mldsa /\ dsig.signature.mldsa.message = dsig.message
    ELSE SlhDsa_verify(dsig.keys.slh_dsa, DsigHash, dsig.signature.slh_dsa)

\* C32: a dual signature verifies exactly when both of its halves verify; under
\* a key pair of which one half is not the signer's, and when one half of the
\* signature was altered, it does not verify; the issuer's signature over the
\* message verifies under the issuer's keys.
C32_DualSignatureNeedsBothHalves ==
    dsig.scheme # "none" =>
        /\ dsig.valid <=> (FirstHalfVerifies /\ SecondHalfVerifies)
        /\ dsig.owners # <<"issuer", "issuer">> => ~dsig.valid
        /\ dsig.altered # "none" => ~dsig.valid
        /\ (dsig.owners = <<"issuer", "issuer">> /\ dsig.altered = "none"
              /\ dsig.signed = dsig.message) => dsig.valid

\* The issuer's token signature was verified under a key pair whose Ed25519
\* half alone is wrong: the first half failed, the second verified, and the
\* dual signature was rejected.
C32_Witness ==
    /\ dsig.scheme = "issuer"
    /\ dsig.owners = <<"mallory", "issuer">>
    /\ dsig.altered = "none" /\ dsig.signed = dsig.message
    /\ ~FirstHalfVerifies /\ SecondHalfVerifies
    /\ ~dsig.valid

\* What C33 says of every case but the omitted AAD: the round trip under the
\* same keys and AAD gives the plaintext; a different AAD, different keys
\* and a failed outer or inner layer give an error.
CascadeRoundTripAndFailures ==
    /\ (cas.same_keys /\ cas.tampering = "none" /\ IsSome(cas.enc_aad)
          /\ cas.dec_aad = cas.enc_aad) => cas.res = Ok(cas.plaintext)
    /\ (IsSome(cas.enc_aad) /\ IsSome(cas.dec_aad) /\ cas.dec_aad # cas.enc_aad) => ~cas.res.ok
    /\ ~cas.same_keys => ~cas.res.ok
    /\ cas.tampering # "none" => ~cas.res.ok

\* C33 as stated: decrypt_with_aad(encrypt_with_aad(pt, aad), aad) = pt for
\* every plaintext and AAD, and decryption fails when the AAD differs, when the
\* AAD is omitted (decrypt of a ciphertext of encrypt_with_aad), when the keys
\* differ, and when the outer or the inner layer fails authentication.
C33_AadOmittedAlwaysFails ==
    cas.op = "decrypt" =>
        /\ CascadeRoundTripAndFailures
        /\ (IsSome(cas.enc_aad) /\ cas.dec_aad = None) => ~cas.res.ok

\* C33, amended: as above, but decrypt of a ciphertext of encrypt_with_aad
\* fails when the AAD it was bound to is not empty; bound to the empty AAD,
\* under the same keys and unaltered, it decrypts to the plaintext.
C33_AadOmittedFailsUnlessEmpty ==
    cas.op = "decrypt" =>
        /\ CascadeRoundTripAndFailures
        /\ (IsSome(cas.enc_aad) /\ Unwrap(cas.enc_aad) # <<>> /\ cas.dec_aad = None)
              => ~cas.res.ok
        /\ (cas.enc_aad = Some(<<>>) /\ cas.dec_aad = None /\ cas.same_keys
              /\ cas.tampering = "none") => cas.res = Ok(cas.plaintext)

\* A ciphertext bound to a non-empty AAD was decrypted under the same keys
\* without the AAD, and the decryption failed.
C33_Witness ==
    /\ cas.op = "decrypt"
    /\ cas.enc_aad = Some(<<"context information">>) /\ cas.dec_aad = None
    /\ cas.same_keys /\ cas.tampering = "none"
    /\ ~cas.res.ok

\* C34: a reader either returns the value read at the cursor and leaves the
\* cursor behind the bytes it consumed, or returns an error and leaves the
\* cursor where it was.
C34_ReaderAdvancesOrFailsClean ==
    rd.last.op \in {"read_length_prefixed", "read_fixed", "read_u32", "read_u64"} =>
        LET last == rd.last
            consumed == rd.offset - last.before
            bytes == SubSeq(rd.data, last.before + 1, rd.offset)
        IN  IF last.res.ok
            THEN CASE last.op = "read_length_prefixed" ->
                          /\ consumed = 4 + Len(last.res.v)
                          /\ bytes = u32_to_le_bytes(Len(last.res.v)) \o last.res.v
                   [] last.op = "read_fixed" -> consumed = last.size /\ bytes = last.res.v
                   [] last.op = "read_u32" ->
                          consumed = 4 /\ bytes = u32_to_le_bytes(last.res.v)
                   [] last.op = "read_u64" ->
                          consumed = 8 /\ bytes = u64_to_le_bytes(last.res.v)
            ELSE consumed = 0

\* A token of the builder that the resource server accepts at time at: its
\* payload is for the expected issuer and audience and at lies in its validity
\* period, the clock skew allowed for.
ValidWhenPresented(token, at) ==
    LET payload == PayloadOf(token)
    IN  /\ payload.iss = Validator.expected_issuer
        /\ \E i \in 1..Len(payload.aud) : payload.aud[i] = Validator.expected_audience
        /\ at <= payload.exp + Validator.clock_skew_seconds
        /\ at >= payload.nbf - Validator.clock_skew_seconds

\* C35: a valid token whose binding was replaced still passes
\* verify_signatures and validate, and verify_binding succeeds on it for the
\* client key whose hash was put into the binding; header, payload and
\* signature are those of the original token.
C35_ReplacedBindingStillValidates ==
    (bnd.op = "replace" /\ ValidWhenPresented(bnd.original, bnd.at)) =>
        /\ bnd.signatures
        /\ bnd.validated = "Ok"
        /\ bnd.bound
        /\ bnd.token = [bnd.original EXCEPT !.binding = bnd.token.binding]
        /\ bnd.token.binding.client_key = sha256(bnd.client_key)

\* A valid token bound to the client's key was rebound to the attacker's key
\* and accepted, although the original does not verify for that key.
C35_Witness ==
    /\ bnd.op = "replace"
    /\ ValidWhenPresented(bnd.original, bnd.at)
    /\ bnd.client_key = "attacker-key"
    /\ bnd.original.binding.client_key = sha256("client-key")
    /\ ~QToken_verify_binding(bnd.original, "attacker-key", None).ok
    /\ bnd.validated = "Ok" /\ bnd.bound

\* C36: the client accepts a ServerHello that the attacker built and signed
\* with its own key pair in answer to the ClientHello, and the ServerFinished
\* the attacker sends after it takes the client to Complete with a session
\* whose peer_sign_key is the attacker's key and whose cipher is keyed with
\* the secret the attacker encapsulated.
C36_ClientAcceptsAnyServerKey ==
    /\ (hlast.op = "process_server_hello" /\ hlast.obj = "client" /\ hlast.kind = "forged"
          /\ hlast.pre = "ClientHelloSent") =>
            /\ hlast.res = "Ok"
            /\ hs["client"].state = "ClientFinishedSent"
            /\ hs["client"].peer_sign_public_key = Some(SignPublicKey("A"))
    /\ (hlast.op = "process_server_finished" /\ hlast.obj = "client" /\ hlast.kind = "attacker"
          /\ hlast.pre = "ClientFinishedSent"
          /\ hs["client"].peer_sign_public_key = Some(SignPublicKey("A"))) =>
            /\ hlast.res = "Ok"
            /\ hs["client"].state = "Complete"
            /\ IsSome(sess["client"])
            /\ Unwrap(sess["client"]).peer_sign_key = SignPublicKey("A")
            /\ Unwrap(sess["client"]).cipher =
                   QuantumShield_new(QShieldKEM_encapsulate(Unwrap(out.ch).kem_public_key,
                                                            AttackerRandomness).shared_secret)

\* The client has completed the handshake with the attacker, while the server
\* object took no part in it.
C36_Witness ==
    /\ hlast.op = "process_server_finished" /\ hlast.obj = "client" /\ hlast.kind = "attacker"
    /\ hlast.res = "Ok"
    /\ hs["client"].state = "Complete"
    /\ hs["server"].state = "Initial"
    /\ IsSome(sess["client"])
    /\ Unwrap(sess["client"]).peer_sign_key = SignPublicKey("A")

\* The last validate call failed one of the two timestamp checks.
TimestampRejected(call) ==
    call.age > PROOF_MAX_AGE_SECONDS \/ call.age < -PROOF_MAX_AGE_SECONDS

\* A step that is one validate call.
ValidateStep == plast'.op = "validate" /\ now' = now /\ proofs' = proofs

\* The call leaves the nonce cache unchanged when it rejects the proof for its
\* timestamp, and holds the proof's nonce in the cache otherwise, whatever the
\* later checks say.
MarksAfterTimestampCheck ==
    IF TimestampRejected(plast')
    THEN plast'.res = "InvalidProof" /\ pv'.used_nonces = pv.used_nonces
    ELSE plast'.nonce \in pv'.used_nonces.nonces

NonceMarkedAfterTimestampCheck == [][ValidateStep => MarksAfterTimestampCheck]_vars

\* C37: validate records the nonce after the timestamp check and before the
\* other checks, so that a call rejected for its timestamp leaves the cache
\* unchanged, and after a call that was rejected by a later check and
\* consumed the nonce a validate of the same proof with the correct request
\* data is rejected.
C37_RejectedCallConsumesNonce ==
    [][ValidateStep =>
          /\ MarksAfterTimestampCheck
          /\ (plast.op = "validate" /\ plast.res = "InvalidProof" /\ plast.marked
                /\ plast'.kind = "honest" /\ plast'.req = "good"
                /\ plast'.proof = [plast.proof EXCEPT ![1].signature =
                                      Unwrap(plast'.proof).signature])
                => plast'.res = "InvalidProof"]_vars

\* A step that is one receive call (a call that changes nothing is a
\* stuttering step).
ReceiveStep == clast'.op = "receive" /\ wire' = wire

\* C38: accepting a frame with counter c sets recv_counter to c + 1, and from
\* then on every frame of the session with a counter of at most c is
\* rejected, also one that was sent before and had not been delivered;
\* recv_counter never goes back.
C38_AcceptedCounterClosesAllBelow ==
    [][ReceiveStep =>
          LET e == clast'.end
          IN  /\ clast'.res = "Ok" => chan'[e].recv_counter = clast'.counter + 1
              /\ chan'[e].recv_counter >= chan[e].recv_counter
              /\ (/\ clast'.counter >= 0
                  /\ \E i \in 1..Len(accepted[e]) : clast'.counter <= accepted[e][i])
                    => (clast'.res = "AuthenticationFailed" /\ chan' = chan)]_vars

\* The frame with counter 0, sent first, reached b after the frame with
\* counter 1 had been accepted, and was rejected.
C38_Witness ==
    /\ clast.op = "receive" /\ clast.end = "b"
    /\ clast.counter = 0 /\ clast.res = "AuthenticationFailed"
    /\ accepted["b"] = <<1>>
    /\ Len(wire) >= 2
    /\ MessageChannel_receive(MessageChannel_new(chan["b"].cipher, <<"session", 1>>),
                              wire[1]).res = "Ok"

\* C39: a receive that is rejected, for whichever reason, and a send_control
\* that returns NotSupported leave both counters of both ends as they were;
\* the rejected receive delivers nothing and the refused send_control puts
\* no frame on the wire.
C39_FailedCallsLeaveChannelUnchanged ==
    [][/\ (ReceiveStep /\ clast'.res # "Ok") => (chan' = chan /\ accepted' = accepted)
       /\ (clast'.op = "send_control" /\ clast'.res = "NotSupported")
             => (chan' = chan /\ wire' = wire)]_vars

\* A frame beyond the window was rejected by an end that had accepted
\* nothing, after the peer had sent: recv_counter is what it was before the
\* call.
C39_Witness ==
    /\ clast.op = "receive" /\ clast.end = "b"
    /\ clast.res = "AuthenticationFailed"
    /\ clast.counter = RecvWindow + 1
    /\ chan["b"].recv_counter = clast.pre
    /\ chan["a"].send_counter > 0

\* A step that is one is_revoked call (a call that changes nothing is a
\* stuttering step).
IsRevokedStep == rlast'.op = "is_revoked" /\ now' = now

\* The cached status of rid is younger than the cache TTL.
CachedFresh(r) ==
    /\ IsSome(checker.cache.entries[r])
    /\ now - Unwrap(checker.cache.entries[r]).cached_at < checker.cache.ttl

\* A lookup served from the cache answers the cached status and leaves the
\* entry, its age included, as it was; any other lookup caches its answer
\* with the current time.
LookupsDoNotRefresh ==
    LET r == rlast'.rid
    IN  IF CachedFresh(r)
        THEN /\ checker' = checker
             /\ rlast'.res = BoolStr(Unwrap(checker.cache.entries[r]).status.revoked)
        ELSE /\ IsSome(checker'.cache.entries[r])
             /\ Unwrap(checker'.cache.entries[r]).cached_at = now

\* The lookup is made at least one TTL after another node revoked rid in the
\* store, on a checker without a bloom filter.
LookupAfterTtl ==
    /\ nodeRevokedAt[rlast'.rid] >= 0
    /\ now >= nodeRevokedAt[rlast'.rid] + checker.cache.ttl
    /\ ~IsSome(checker.bloom_filter)

\* C40 as stated: every is_revoked(rid) made on a checker without a bloom
\* filter at least one cache TTL after rid was revoked directly in the store
\* answers true.
C40_StaleAnswerAtMostOneTtl ==
    [][IsRevokedStep =>
          /\ LookupsDoNotRefresh
          /\ LookupAfterTtl => rlast'.res = "true"]_vars

\* C40 for a store that still holds the entry: such a lookup answers true
\* as long as cleanup has not removed the entry written at that time.
C40_StaleAnswerAtMostOneTtlWhileStored ==
    [][IsRevokedStep =>
          /\ LookupsDoNotRefresh
          /\ (/\ LookupAfterTtl
              /\ IsSome(store.revocations[rlast'.rid])
              /\ Unwrap(store.revocations[rlast'.rid]).revoked_at =
                    nodeRevokedAt[rlast'.rid])
                => rlast'.res = "true"]_vars

\* Exactly one TTL after a node revoked rid 1, the checker, which had cached
\* "not revoked" for it at the time of the revocation, answers true.
C40_Witness ==
    /\ rlast = [op |-> "is_revoked", rid |-> 1, res |-> "true"]
    /\ nodeRevokedAt[1] >= 0
    /\ now = nodeRevokedAt[1] + checker.cache.ttl
    /\ ~IsSome(checker.bloom_filter)
    /\ IsSome(store.revocations[1])
    /\ Unwrap(checker.cache.entries[1]).cached_at = now

(***************************************************************************)
(* Key rotation properties                                                 *)
(***************************************************************************)

\* C20: two ciphers made from one secret that have each rotated their keys
\* the same number of times hold equal keys, and each decrypts what the
\* other encrypts.
C20_EqualRotationsGiveEqualKeys ==
    (qs["x"].rotations = qs["y"].rotations) =>
        /\ qs["x"].cipher = qs["y"].cipher
        /\ qlast.op = "exchange" => qlast.res = Ok("hello")

\* C21: a cipher that has rotated its keys since it produced a ciphertext,
\* once or several times, fails to decrypt that ciphertext, and decrypts what
\* it encrypts with its current keys back to the plaintext.
C21_OldCiphertextsFailAfterRotation ==
    /\ \A h \in {"x", "y"} :
          QuantumShield_decrypt(qs[h].cipher, QuantumShield_encrypt(qs[h].cipher, "later"))
              = Ok("later")
    /\ (qlast.op = "exchange" /\ qs[qlast.from].rotations > qlast.rotations) =>
          ~QuantumShield_decrypt(qs[qlast.from].cipher, qlast.ciphertext).ok

\* A cipher encrypted a message and then rotated its keys twice.
C21_Witness ==
    /\ qlast.op = "exchange"
    /\ qlast.rotations = 0
    /\ qs[qlast.from].rotations = 2

====
